---- MODULE Spec2Model ----
(***************************************************************************)
(* Model of the market-analysis engine of Vaalstreetbets:                  *)
(*   arbitrage.py  MarketAnalyzer  (graph builder, volume index,           *)
(*                                  spread ranking, triangular detection)  *)
(*   trend_analyzer.py  TrendAnalyzer  (history over several hours,        *)
(*                                  persistence, trend, comparison)        *)
(*   main.py  main  (the multi-hour trend run)                             *)
(* Prices are Python floats in the program; the model computes them as     *)
(* exact rationals <<numerator, denominator>> in lowest terms.             *)
(***************************************************************************)
EXTENDS Integers, Sequences, FiniteSets, TLC

VARIABLES
    realm,                  \* MarketAnalyzer.realm ("None" or "poe2")
    pc,                     \* "process": inside the loop of _process_markets;
                            \* "built": __init__ returned; "raised": __init__ raised
    exception,              \* the exception that left __init__ ("none" if none)
    n,                      \* number of payload records the loop has consumed
                            \* (0 again once _process_markets has returned)
    market,                 \* the loop variable of _process_markets
    markets,                \* processed_markets / self.markets (ordered dict of dicts)
    divine_to_base_ratio,   \* self.divine_to_base_ratio
    market_base_volumes,    \* self.market_base_volumes
    market_divine_volumes,  \* self.market_divine_volumes
    base_stats,             \* self.base_stats
    divine_stats,           \* self.divine_stats
    last_call,              \* the query called last, with its arguments
    opportunities,          \* the local list `opportunities` of that call
    returned,               \* the value that call handed to its caller
    trend_pc,               \* where the multi-hour side is: "off", "fetch",
                            \* "insufficient", "construct", "built", "raised",
                            \* "persistent_done", "trending_done", "done"
    timestamps,             \* main: the hours asked of the client so far
    hourly_data_list,       \* the payloads collected, oldest first
    current_markets,        \* main: the current hour's payload
    analyzers,              \* TrendAnalyzer.analyzers: the graph of each hour
    market_history,         \* TrendAnalyzer.market_history (ordered dict)
    trend_divine_to_base_ratio, \* TrendAnalyzer.divine_to_base_ratio
    trend_exception,        \* the exception main caught in the trend run
    trend_call,             \* the TrendAnalyzer query called last, with arguments
    trend_returned,         \* the value that query returned
    cache_files,            \* TradeAPIClient: the files of cache_dir, by filename
    api_requests,           \* the requests sent to the API so far
    fetch_log               \* the calls of fetch_hourly_data so far: the file each
                            \* found and left, the number of requests it sent and
                            \* what it returned

analyzerVars == <<pc, exception, n, market, markets, divine_to_base_ratio,
                  market_base_volumes, market_divine_volumes, base_stats,
                  divine_stats, last_call, opportunities, returned>>

trendVars == <<trend_pc, timestamps, hourly_data_list, current_markets, analyzers,
               market_history, trend_divine_to_base_ratio, trend_exception,
               trend_call, trend_returned>>

clientVars == <<cache_files, api_requests, fetch_log>>

vars == <<realm, analyzerVars, trendVars, clientVars>>

(***************************************************************************)
(* Bounds                                                                  *)
(***************************************************************************)
\* records in one hour's payload
MaxRecords == 4
\* hourly payloads a TrendAnalyzer is built from
MaxHours == 3
\* config.TREND_HOURS: the historical hours main asks for
TREND_HOURS == 2
\* the bits of a float's significand (53 in the program's binary64) and the
\* largest ratio entry of a record, for the arithmetic with rounding
MantissaBits == 6
MaxRatio == 5
\* calls of fetch_hourly_data on one client
MaxCalls == 2

(***************************************************************************)
(* Exact rational arithmetic (the program's `/`, `*`, `-`, `<` on numbers)  *)
(***************************************************************************)
Abs(i) == IF i < 0 THEN 0 - i ELSE i

RECURSIVE Gcd(_, _)
Gcd(a, b) == IF b = 0 THEN a ELSE Gcd(b, a % b)

\* the rational num/den in lowest terms with a positive denominator (den # 0)
Norm(num, den) ==
    LET g == Gcd(Abs(num), Abs(den))
        s == IF den < 0 THEN 0 - 1 ELSE 1
    IN  <<(s * num) \div g, (s * den) \div g>>

Rat(i) == <<i, 1>>
Zero == Rat(0)
One == Rat(1)
IsZero(p) == p[1] = 0
\* p / q, defined for q # 0 (Python raises ZeroDivisionError otherwise)
RDiv(p, q) == Norm(p[1] * q[2], p[2] * q[1])
RMul(p, q) == Norm(p[1] * q[1], p[2] * q[2])
RAdd(p, q) == Norm(p[1] * q[2] + q[1] * p[2], p[2] * q[2])
RSub(p, q) == Norm(p[1] * q[2] - q[1] * p[2], p[2] * q[2])
RLess(p, q) == p[1] * q[2] < q[1] * p[2]
RLeq(p, q) == p[1] * q[2] <= q[1] * p[2]
RMax(p, q) == IF RLess(p, q) THEN q ELSE p
RMin(p, q) == IF RLess(q, p) THEN q ELSE p

(***************************************************************************)
(* Strings.  A market_id is a sequence of atoms: currency names and the    *)
(* separator "|"; no two currency names are adjacent, so every piece of a  *)
(* split is one name or the empty string.                                  *)
(***************************************************************************)
None == "None"
Sep == "|"

\* lexicographic order of the strings that occur as currency tokens
StrRank(s) ==
    CASE s = "" -> 0
      [] s = "chaos" -> 1
      [] s = "divine" -> 2
      [] s = "exalted" -> 3
      [] s = "mirror" -> 4

StrLess(s, t) == StrRank(s) < StrRank(t)

\* tuple(sorted((a, b)))
SortedPair(a, b) == IF StrLess(b, a) THEN <<b, a>> ELSE <<a, b>>

\* str.split('|'): the pieces between separators, in order
RECURSIVE SplitFrom(_, _, _)
SplitFrom(id, i, piece) ==
    IF i > Len(id) THEN <<piece>>
    ELSE IF id[i] = Sep THEN <<piece>> \o SplitFrom(id, i + 1, "")
    ELSE SplitFrom(id, i + 1, id[i])

Split(id) == SplitFrom(id, 1, "")

\* '|' in market_id
HasSep(id) == \E i \in 1..Len(id) : id[i] = Sep

(***************************************************************************)
(* Python dicts: insertion-ordered keys and a value per key                *)
(***************************************************************************)
EmptyMap == [k \in {} |-> 0]
EmptyDict == [keys |-> <<>>, val |-> EmptyMap]
Has(d, k) == k \in DOMAIN d.val
\* d[k] = v : a new key goes last, an existing key keeps its place
Put(d, k, v) ==
    [keys |-> IF Has(d, k) THEN d.keys ELSE Append(d.keys, k),
     val  |-> [x \in (DOMAIN d.val) \cup {k} |-> IF x = k THEN v ELSE d.val[x]]]
\* m.get(k, default) on a plain map
GetOr(m, k, default) == IF k \in DOMAIN m THEN m[k] ELSE default

(***************************************************************************)
(* The payload: raw market records (api_client supplies them)              *)
(***************************************************************************)
\* the league the analyzer is built for, and another one
League == "Settlers"
OtherLeague == "Standard"

\* a ratio or volume map with one or two entries
M1(a, va) == (a :> va)
M2(a, va, b, vb) == (a :> va) @@ (b :> vb)
M3(a, va, b, vb, c, vc) == (a :> va) @@ (b :> vb) @@ (c :> vc)

Id2(a, b) == <<a, Sep, b>>

Record(league, id, lo, hi, vol) ==
    [league |-> league, market_id |-> id, lowest_ratio |-> lo,
     highest_ratio |-> hi, volume_traded |-> vol]

\* records that pass every check of the builder
ValidRecords ==
    { Record(League, Id2("chaos", "divine"),
             M2("chaos", 1, "divine", 2), M2("chaos", 1, "divine", 2),
             M2("chaos", 2, "divine", 1)),
      Record(League, Id2("divine", "exalted"),
             M2("divine", 1, "exalted", 3), M2("divine", 1, "exalted", 3),
             M2("chaos", 3, "exalted", 1)),
      Record(League, Id2("exalted", "chaos"),
             M2("exalted", 5, "chaos", 1), M2("exalted", 5, "chaos", 1),
             M3("exalted", 2, "chaos", 4, "divine", 1)),
      Record(League, Id2("divine", "chaos"),
             M2("divine", 2, "chaos", 1), M2("divine", 3, "chaos", 1),
             M2("chaos", 2, "divine", 2)),
      Record(League, Id2("divine", "exalted"),
             M2("divine", 1, "exalted", 3), M2("divine", 1, "exalted", 2),
             EmptyMap),
      Record(League, Id2("chaos", "exalted"),
             M2("chaos", 1, "exalted", 4), M2("chaos", 1, "exalted", 2),
             M2("exalted", 1, "divine", 0 - 1)),
      Record(League, Id2("chaos", "divine"),
             M2("chaos", 1, "divine", 1), M2("chaos", 1, "divine", 2),
             M1("chaos", 3)),
      Record(League, Id2("chaos", "chaos"),
             M1("chaos", 1), M1("chaos", 1), M1("chaos", 1)),
      Record(League, Id2("chaos", "mirror"),
             M2("chaos", 1, "mirror", 1), M2("chaos", 1, "mirror", 1),
             M1("chaos", 1)) }

\* records with a zero ratio entry, for the first or for the second token
ZeroRecords ==
    { Record(League, Id2("chaos", "divine"),
             M2("chaos", 0, "divine", 1), M2("chaos", 1, "divine", 1), M1("chaos", 1)),
      Record(League, Id2("chaos", "divine"),
             M2("chaos", 1, "divine", 1), M2("chaos", 0, "divine", 1), M1("chaos", 1)),
      Record(League, Id2("chaos", "divine"),
             M2("chaos", 1, "divine", 0), M2("chaos", 1, "divine", 1), M1("chaos", 1)),
      Record(League, Id2("chaos", "divine"),
             M2("chaos", 1, "divine", 1), M2("chaos", 1, "divine", 0), M1("chaos", 1)) }

\* records with a ratio entry or a whole ratio map missing
MissingRecords ==
    { Record(League, Id2("chaos", "divine"),
             M1("chaos", 1), M2("chaos", 1, "divine", 1), M1("chaos", 1)),
      [league |-> League, market_id |-> Id2("chaos", "divine"),
       lowest_ratio |-> M2("chaos", 1, "divine", 1)] }

\* records whose market_id is missing, empty, without '|', or not two tokens
BadIdRecords ==
    { [league |-> League, lowest_ratio |-> M2("chaos", 1, "divine", 1),
       highest_ratio |-> M2("chaos", 1, "divine", 1)] }
    \cup
    { Record(League, id, M2("chaos", 1, "divine", 2), M2("chaos", 1, "divine", 1),
             M1("chaos", 1)) :
        id \in { <<>>, <<"chaos">>, <<"chaos", Sep, "divine", Sep, "exalted">>,
                 <<Sep, "divine">>, <<"chaos", Sep>> } }

\* a well-formed record of another league
OtherLeagueRecords ==
    { Record(OtherLeague, Id2("exalted", "chaos"),
             M2("exalted", 1, "chaos", 5), M2("exalted", 1, "chaos", 1),
             M1("chaos", 4)) }

Records ==
    ValidRecords \cup ZeroRecords \cup MissingRecords \cup BadIdRecords
        \cup OtherLeagueRecords

(***************************************************************************)
(* MarketAnalyzer.__init__ and _process_markets                            *)
(***************************************************************************)
Realms == {"None", "poe2"}

\* self.base_currency
base_currency == IF realm = "poe2" THEN "exalted" ELSE "chaos"

\* the volume map an edge carries, read as volume.get(currency, 0)
VolumeOf(edge, currency) == GetOr(edge.volume, currency, 0)

\* `not market_id or '|' not in market_id`, market_id = market.get('market_id')
InvalidId(m) ==
    \/ "market_id" \notin DOMAIN m
    \/ m.market_id = <<>>
    \/ ~HasSep(m.market_id)

\* the four membership tests on lowest_ratio and highest_ratio
MissingRatios(m, a, b) ==
    LET lo == GetOr(m, "lowest_ratio", EmptyMap)
        hi == GetOr(m, "highest_ratio", EmptyMap)
    IN  \/ a \notin DOMAIN lo
        \/ b \notin DOMAIN lo
        \/ a \notin DOMAIN hi
        \/ b \notin DOMAIN hi

\* the "Avoid division by zero" test
ZeroRatio(m, a, b) ==
    \/ m.lowest_ratio[a] = 0
    \/ m.highest_ratio[a] = 0

\* a slip: the maximum price taken from highest_ratio
max_historical_price_from_highest(m, a, b) ==
    RDiv(Rat(m.highest_ratio[b]), Rat(m.highest_ratio[a]))

\* max_historical_price_for_a and min_historical_price_for_a
max_historical_price_for_a(m, a, b) ==
    RDiv(Rat(m.lowest_ratio[b]), Rat(m.lowest_ratio[a]))

min_historical_price_for_a(m, a, b) ==
    RDiv(Rat(m.highest_ratio[b]), Rat(m.highest_ratio[a]))

\* the edge stored for currency_a -> currency_b
ForwardEdge(maxp, minp, volume) ==
    [max_price |-> maxp, min_price |-> minp, volume |-> volume]

\* a slip: the inverse edge keeps max and min in place
InverseEdge_Unswapped(maxp, minp, volume) ==
    [max_price |-> RDiv(One, maxp), min_price |-> RDiv(One, minp), volume |-> volume]

\* the edge stored for currency_b -> currency_a (maxp and minp nonzero)
InverseEdge(maxp, minp, volume) ==
    [max_price |-> RDiv(One, minp), min_price |-> RDiv(One, maxp), volume |-> volume]

\* processed_markets[k] = {} unless k is a key already
EnsureKey(g, k) == IF Has(g, k) THEN g ELSE Put(g, k, EmptyDict)

\* a slip: an edge that is already there is kept
StoreEdge_KeepFirst(g, a, b, edge) ==
    IF Has(g.val[a], b) THEN g ELSE Put(g, a, Put(g.val[a], b, edge))

\* processed_markets[a][b] = edge
StoreEdge(g, a, b, edge) == Put(g, a, Put(g.val[a], b, edge))

HasEdge(g, a, b) == Has(g, a) /\ Has(g.val[a], b)
Edge(g, a, b) == g.val[a].val[b]

\* One iteration of the loop of _process_markets on record m with the graph
\* g built so far: how the iteration ends and the graph it leaves.
ProcessRecord(g, m) ==
    IF GetOr(m, "league", None) # League
    THEN [outcome |-> "wrong_league", graph |-> g]
    ELSE IF InvalidId(m)
    THEN [outcome |-> "invalid_id", graph |-> g]
    ELSE
    LET tokens == Split(m.market_id) IN
    IF Len(tokens) # 2
    THEN [outcome |-> "ValueError", graph |-> g]
    ELSE
    LET a == tokens[1]
        b == tokens[2]
    IN
    IF MissingRatios(m, a, b)
    THEN [outcome |-> "missing_ratios", graph |-> g]
    ELSE IF ZeroRatio(m, a, b)
    THEN [outcome |-> "zero_ratio", graph |-> g]
    ELSE
    LET maxp == max_historical_price_for_a(m, a, b)
        minp == min_historical_price_for_a(m, a, b)
        volume == GetOr(m, "volume_traded", EmptyMap)
        g1 == StoreEdge(EnsureKey(EnsureKey(g, a), b), a, b,
                        ForwardEdge(maxp, minp, volume))
    IN
    IF IsZero(minp) \/ IsZero(maxp)
    THEN [outcome |-> "ZeroDivisionError", graph |-> g1]
    ELSE [outcome |-> "stored",
          graph |-> StoreEdge(g1, b, a, InverseEdge(maxp, minp, volume))]

Raises(outcome) == outcome \in {"ValueError", "ZeroDivisionError"}

(***************************************************************************)
(* Lists: list.sort and bisect_left                                        *)
(***************************************************************************)
\* The sorts with a key run on a list of <<key, element>>.
\* a slip: x put before the elements whose key equals its key
InsertDescending_BeforeEqual(sorted, x) ==
    LET p == Cardinality({k \in 1..Len(sorted) : RLess(x[1], sorted[k][1])})
    IN  SubSeq(sorted, 1, p) \o <<x>> \o SubSeq(sorted, p + 1, Len(sorted))

\* x put into a descending list after every element whose key is >= its key
InsertDescending(sorted, x) ==
    LET p == Cardinality({k \in 1..Len(sorted) : ~RLess(sorted[k][1], x[1])})
    IN  SubSeq(sorted, 1, p) \o <<x>> \o SubSeq(sorted, p + 1, Len(sorted))

\* the elements of a list of <<key, element>>
Elements(keyed) == [i \in 1..Len(keyed) |-> keyed[i][2]]

\* a slip: a descending sort that reverses the elements of equal key
SortDescending_TiesReversed(keyed) ==
    LET acc[i \in 0..Len(keyed)] ==
            IF i = 0 THEN <<>> ELSE InsertDescending_BeforeEqual(acc[i - 1], keyed[i])
    IN  Elements(acc[Len(keyed)])

\* list.sort(key=..., reverse=True): descending, equal keys keep their order
SortDescending(keyed) ==
    LET acc[i \in 0..Len(keyed)] ==
            IF i = 0 THEN <<>> ELSE InsertDescending(acc[i - 1], keyed[i])
    IN  Elements(acc[Len(keyed)])

\* list.sort() on numbers: ascending
RECURSIVE InsertAscending(_, _)
InsertAscending(sorted, x) ==
    IF sorted = <<>> THEN <<x>>
    ELSE IF x < Head(sorted)
         THEN <<x>> \o sorted
         ELSE <<Head(sorted)>> \o InsertAscending(Tail(sorted), x)

RECURSIVE SortAscendingFrom(_, _, _)
SortAscendingFrom(list, i, acc) ==
    IF i > Len(list) THEN acc
    ELSE SortAscendingFrom(list, i + 1, InsertAscending(acc, list[i]))

SortAscending(list) == SortAscendingFrom(list, 1, <<>>)

\* bisect.bisect_left(a, x): binary search over the 0-based slice [lo, hi)
RECURSIVE BisectLeftFrom(_, _, _, _)
BisectLeftFrom(a, x, lo, hi) ==
    IF lo < hi
    THEN LET mid == (lo + hi) \div 2 IN
         IF a[mid + 1] < x
         THEN BisectLeftFrom(a, x, mid + 1, hi)
         ELSE BisectLeftFrom(a, x, lo, mid)
    ELSE lo

\* a slip: the insertion point after the entries equal to x (bisect_right)
RECURSIVE BisectRightFrom(_, _, _, _)
BisectRightFrom(a, x, lo, hi) ==
    IF lo < hi
    THEN LET mid == (lo + hi) \div 2 IN
         IF x < a[mid + 1]
         THEN BisectRightFrom(a, x, lo, mid)
         ELSE BisectRightFrom(a, x, mid + 1, hi)
    ELSE lo

bisect_right(a, x) == BisectRightFrom(a, x, 0, Len(a))

bisect_left(a, x) == BisectLeftFrom(a, x, 0, Len(a))

\* MarketAnalyzer._get_volume_percentile
_get_volume_percentile(volume, volume_list) ==
    IF volume_list = <<>> \/ volume <= 0
    THEN Zero
    ELSE RMul(Norm(bisect_left(volume_list, volume), Len(volume_list)), Rat(100))

(***************************************************************************)
(* Iterating the graph: `for a, trades in markets.items(): for b, data ...` *)
(* with the processed_pairs set                                            *)
(***************************************************************************)
RECURSIVE EdgesFrom(_, _, _)
EdgesFrom(g, i, j) ==
    IF i > Len(g.keys) THEN <<>>
    ELSE LET a == g.keys[i]
             inner == g.val[a].keys
         IN  IF j > Len(inner) THEN EdgesFrom(g, i + 1, 1)
             ELSE <<<<a, inner[j]>>>> \o EdgesFrom(g, i, j + 1)

\* every directed edge <<a, b>>, in iteration order
DirectedEdges(g) == EdgesFrom(g, 1, 1)

\* the directed edges the loop body runs for: the first one met of each
\* unordered pair (market_pair not yet in processed_pairs)
RECURSIVE FirstOfPairFrom(_, _, _)
FirstOfPairFrom(edges, i, processed_pairs) ==
    IF i > Len(edges) THEN <<>>
    ELSE LET market_pair == SortedPair(edges[i][1], edges[i][2]) IN
         IF market_pair \in processed_pairs
         THEN FirstOfPairFrom(edges, i + 1, processed_pairs)
         ELSE <<edges[i]>>
              \o FirstOfPairFrom(edges, i + 1, processed_pairs \cup {market_pair})

UniquePairs(g) == FirstOfPairFrom(DirectedEdges(g), 1, {})

RECURSIVE SumInts(_, _)
SumInts(list, i) == IF i > Len(list) THEN 0 ELSE list[i] + SumInts(list, i + 1)

(***************************************************************************)
(* _calculate_divine_base_ratio and _perform_initial_calculations          *)
(***************************************************************************)
\* config.DEFAULT_DIVINE_CHAOS_RATIO and config.DEFAULT_DIVINE_EXALTED_RATIO
DEFAULT_DIVINE_CHAOS_RATIO == 250
DEFAULT_DIVINE_EXALTED_RATIO == 30

\* an attribute that is not assigned yet
Unset == <<0, 0>>

_calculate_divine_base_ratio(g, base) ==
    IF HasEdge(g, "divine", base)
    THEN RDiv(RAdd(Edge(g, "divine", base).min_price,
                   Edge(g, "divine", base).max_price), Rat(2))
    ELSE IF base = "chaos" THEN Rat(DEFAULT_DIVINE_CHAOS_RATIO)
                           ELSE Rat(DEFAULT_DIVINE_EXALTED_RATIO)

\* the volumes of the unique pairs, before the sort
PairVolumes(g, currency) ==
    LET Keep(e) == VolumeOf(Edge(g, e[1], e[2]), currency) > 0
        kept == SelectSeq(UniquePairs(g), Keep)
    IN  [i \in 1..Len(kept) |-> VolumeOf(Edge(g, kept[i][1], kept[i][2]), currency)]

\* self.market_base_volumes / self.market_divine_volumes after the sort
VolumeIndex(g, currency) == SortAscending(PairVolumes(g, currency))

\* market_data_list
MarketDataList(g, base) ==
    LET Keep(e) == \/ VolumeOf(Edge(g, e[1], e[2]), base) > 0
                   \/ VolumeOf(Edge(g, e[1], e[2]), "divine") > 0
        F(e) == [market_id |-> <<e[1], Sep, e[2]>>,
                 base_volume |-> VolumeOf(Edge(g, e[1], e[2]), base),
                 divine_volume |-> VolumeOf(Edge(g, e[1], e[2]), "divine"),
                 volume_traded |-> Edge(g, e[1], e[2]).volume]
        kept == SelectSeq(UniquePairs(g), Keep)
    IN  [i \in 1..Len(kept) |-> F(kept[i])]

\* statistics.median of a non-empty list of numbers
Median(volumes) ==
    LET sorted == SortAscending(volumes)
        k == Len(sorted)
    IN  IF k % 2 = 1 THEN Rat(sorted[(k + 1) \div 2])
        ELSE Norm(sorted[k \div 2] + sorted[k \div 2 + 1], 2)

NoStats == [kind |-> None]

\* MarketAnalyzer._calculate_currency_stats
_calculate_currency_stats(market_data_list, volume_key) ==
    LET Keep(m) == m[volume_key] > 0
        with_volume == SelectSeq(market_data_list, Keep)
        markets_with_volume ==
            SortDescending([i \in 1..Len(with_volume) |->
                              <<Rat(with_volume[i][volume_key]), with_volume[i]>>])
        volumes == [i \in 1..Len(markets_with_volume) |->
                      markets_with_volume[i][volume_key]]
    IN  IF Len(markets_with_volume) = 0 THEN NoStats
        ELSE [kind |-> "stats",
              mean |-> Norm(SumInts(volumes, 1), Len(volumes)),
              median |-> Median(volumes),
              top_markets |-> markets_with_volume]

(***************************************************************************)
(* get_top_spread_opportunities                                            *)
(***************************************************************************)
\* values config.MIN_SPREAD_THRESHOLD is given
SpreadThresholds == {Zero, <<1, 2>>}

\* values of the min_percentile argument
MinPercentiles == {0, 50}

\* (max_price / min_price) - 1, for min_price # 0
SpreadWidth(prices) == RSub(RDiv(prices.max_price, prices.min_price), One)

\* max(base_percentile, divine_percentile) of one market
LiquidityPercentile(prices) ==
    RMax(_get_volume_percentile(VolumeOf(prices, base_currency), market_base_volumes),
         _get_volume_percentile(VolumeOf(prices, "divine"), market_divine_volumes))

\* the tuple appended for the pair whose first-met direction is a -> b
SpreadEntry(a, b) ==
    LET prices == Edge(markets, a, b) IN
    [spread |-> SpreadWidth(prices),
     pair |-> <<a, b>>,
     min_price |-> prices.min_price,
     max_price |-> prices.max_price,
     volume_percentile |-> LiquidityPercentile(prices),
     base_volume |-> VolumeOf(prices, base_currency),
     divine_volume |-> VolumeOf(prices, "divine")]

\* whether the loop body appends the pair
SpreadKept(a, b, hide_zero_volume, threshold) ==
    LET prices == Edge(markets, a, b) IN
    /\ RLess(Zero, prices.min_price)
    /\ RLess(threshold, SpreadWidth(prices))
    /\ ~(/\ hide_zero_volume
         /\ VolumeOf(prices, base_currency) = 0
         /\ VolumeOf(prices, "divine") = 0)

\* the list `opportunities` after the sort on the spread
SpreadOpportunities(hide_zero_volume, threshold) ==
    LET Keep(e) == SpreadKept(e[1], e[2], hide_zero_volume, threshold)
        kept == SelectSeq(UniquePairs(markets), Keep)
    IN  SortDescending([i \in 1..Len(kept) |->
                          <<SpreadWidth(Edge(markets, kept[i][1], kept[i][2])),
                            SpreadEntry(kept[i][1], kept[i][2])>>])

\* what get_top_spread_opportunities hands to its caller
SpreadReturn(list) == [kind |-> None]

(***************************************************************************)
(* get_top_triangular_inefficiencies                                       *)
(***************************************************************************)
\* itertools.permutations(currencies, 3): triples of distinct positions in
\* lexicographic order of the positions
Permutations3(currencies) ==
    LET k == Len(currencies)
        triple(t) == <<(t - 1) \div (k * k) + 1, (((t - 1) \div k) % k) + 1, ((t - 1) % k) + 1>>
        all == [t \in 1..(k * k * k) |-> triple(t)]
        Keep(x) == x[1] # x[2] /\ x[1] # x[3] /\ x[2] # x[3]
        kept == SelectSeq(all, Keep)
    IN  [i \in 1..Len(kept) |->
           <<currencies[kept[i][1]], currencies[kept[i][2]], currencies[kept[i][3]]>>]

\* the three lookups of the try block succeed (no KeyError)
LegsExist(a, b, c) ==
    /\ HasEdge(markets, a, b)
    /\ HasEdge(markets, b, c)
    /\ HasEdge(markets, c, a)

\* a slip: the last leg priced at its max_price
InefficiencyRatio_MaxLastLeg(a, b, c) ==
    RSub(RMul(RMul(RMul(One, Edge(markets, a, b).min_price),
                   Edge(markets, b, c).min_price),
              Edge(markets, c, a).max_price), One)

\* a slip: every leg priced at its max_price
InefficiencyRatio_MaxPrices(a, b, c) ==
    RSub(RMul(RMul(RMul(One, Edge(markets, a, b).max_price),
                   Edge(markets, b, c).max_price),
              Edge(markets, c, a).max_price), One)

\* final_amount_a - 1
InefficiencyRatio(a, b, c) ==
    RSub(RMul(RMul(RMul(One, Edge(markets, a, b).min_price),
                   Edge(markets, b, c).min_price),
              Edge(markets, c, a).min_price), One)

\* a slip: a path that only breaks even counts as an inefficiency
PositiveInefficiency_OrZero(inefficiency_ratio) == RLeq(Zero, inefficiency_ratio)

\* `if inefficiency_ratio > 0`
PositiveInefficiency(inefficiency_ratio) == RLess(Zero, inefficiency_ratio)

HasVolume(prices) ==
    VolumeOf(prices, base_currency) > 0 \/ VolumeOf(prices, "divine") > 0

\* min(percentile_ab, percentile_bc, percentile_ca)
LowestLegPercentile(a, b, c) ==
    RMin(RMin(LiquidityPercentile(Edge(markets, a, b)),
              LiquidityPercentile(Edge(markets, b, c))),
         LiquidityPercentile(Edge(markets, c, a)))

\* the percentile filter lets the path through
PassesPercentile(lowest_leg_percentile, min_percentile) ==
    ~RLess(lowest_leg_percentile, Rat(min_percentile))

Max3(x, y, z) ==
    LET m == IF x < y THEN y ELSE x IN IF m < z THEN z ELSE m

\* a slip: the filter on the starting currency is left out
TriangularKept_AnyStart(a, b, c, hide_zero_volume, min_percentile) ==
    /\ LegsExist(a, b, c)
    /\ PositiveInefficiency(InefficiencyRatio(a, b, c))
    /\ ~(/\ hide_zero_volume
         /\ ~(/\ HasVolume(Edge(markets, a, b))
              /\ HasVolume(Edge(markets, b, c))
              /\ HasVolume(Edge(markets, c, a))))
    /\ PassesPercentile(LowestLegPercentile(a, b, c), min_percentile)

\* whether the loop body appends the path a -> b -> c -> a
TriangularKept(a, b, c, hide_zero_volume, min_percentile) ==
    /\ a = base_currency
    /\ LegsExist(a, b, c)
    /\ PositiveInefficiency(InefficiencyRatio(a, b, c))
    /\ ~(/\ hide_zero_volume
         /\ ~(/\ HasVolume(Edge(markets, a, b))
              /\ HasVolume(Edge(markets, b, c))
              /\ HasVolume(Edge(markets, c, a))))
    /\ PassesPercentile(LowestLegPercentile(a, b, c), min_percentile)

TriangularEntry(a, b, c) ==
    [inefficiency |-> InefficiencyRatio(a, b, c),
     path |-> <<a, b, c, a>>,
     steps |-> <<Edge(markets, a, b).min_price, Edge(markets, b, c).min_price,
                 Edge(markets, c, a).min_price>>,
     volume_percentile |-> LowestLegPercentile(a, b, c),
     base_volume |-> Max3(VolumeOf(Edge(markets, a, b), base_currency),
                          VolumeOf(Edge(markets, b, c), base_currency),
                          VolumeOf(Edge(markets, c, a), base_currency)),
     divine_volume |-> Max3(VolumeOf(Edge(markets, a, b), "divine"),
                            VolumeOf(Edge(markets, b, c), "divine"),
                            VolumeOf(Edge(markets, c, a), "divine"))]

\* the list `opportunities` after the sort on the inefficiency
TriangularOpportunities(hide_zero_volume, min_percentile) ==
    LET Keep(t) == TriangularKept(t[1], t[2], t[3], hide_zero_volume, min_percentile)
        kept == SelectSeq(Permutations3(markets.keys), Keep)
    IN  SortDescending([i \in 1..Len(kept) |->
                          <<InefficiencyRatio(kept[i][1], kept[i][2], kept[i][3]),
                            TriangularEntry(kept[i][1], kept[i][2], kept[i][3])>>])

\* what get_top_triangular_inefficiencies hands to its caller
TriangularReturn(list) == [kind |-> None]

(***************************************************************************)
(* Hourly payloads (what client.fetch_hourly_data returns)                 *)
(***************************************************************************)
\* no payload: fetch_hourly_data returned None
NoData == [kind |-> None]

\* a payload whose 'markets' list is the given list of records
Payload(records) == [kind |-> "data", markets |-> records]

\* a record of pair a|b with max_price (100 + s)/100 and min_price 1,
\* so that its spread is s/100
TrendRecord(a, b, s, vol) ==
    Record(League, Id2(a, b), M2(a, 100, b, 100 + s), M2(a, 1, b, 1), vol)

\* a record whose second token has a zero ratio
ZeroSecondRecord ==
    Record(League, Id2("chaos", "divine"), M2("chaos", 1, "divine", 0),
           M2("chaos", 1, "divine", 1), M1("chaos", 5))

\* the payloads an hour can have
HourPayloads ==
    { Payload(<<TrendRecord("chaos", "divine", 3, M1("divine", 150))>>),
      Payload(<<TrendRecord("divine", "chaos", 5, M2("chaos", 2, "divine", 2))>>),
      Payload(<<TrendRecord("chaos", "divine", 4, EmptyMap),
                TrendRecord("exalted", "chaos", 3, M2("chaos", 150, "exalted", 120))>>),
      Payload(<<TrendRecord("chaos", "exalted", 0, M1("exalted", 1)),
                TrendRecord("chaos", "divine", 2, M1("chaos", 200))>>),
      Payload(<<TrendRecord("chaos", "divine", 3, M1("chaos", 1)), ZeroSecondRecord>>) }

(***************************************************************************)
(* TrendAnalyzer.__init__ : one MarketAnalyzer per hour                    *)
(***************************************************************************)
\* _process_markets on a whole payload: the loop stops at the first record
\* that raises
RECURSIVE ProcessFrom(_, _, _)
ProcessFrom(records, i, g) ==
    IF i > Len(records) THEN [outcome |-> "built", graph |-> g]
    ELSE LET r == ProcessRecord(g, records[i]) IN
         IF Raises(r.outcome) THEN r
         ELSE ProcessFrom(records, i + 1, r.graph)

\* MarketAnalyzer(data, league, realm): the graph, or the exception
MarketAnalyzer(data) == ProcessFrom(data.markets, 1, EmptyDict)

\* the list comprehension of __init__: the graphs of all hours, or the first
\* exception a constructor raises
RECURSIVE AnalyzersFrom(_, _, _)
AnalyzersFrom(data_list, i, built) ==
    IF i > Len(data_list) THEN [outcome |-> "built", analyzers |-> built]
    ELSE LET a == MarketAnalyzer(data_list[i]) IN
         IF Raises(a.outcome) THEN [outcome |-> a.outcome, analyzers |-> <<>>]
         ELSE AnalyzersFrom(data_list, i + 1, Append(built, a.graph))

(***************************************************************************)
(* TrendAnalyzer._analyze_trends                                           *)
(***************************************************************************)
\* [v for v in volumes if v > 0]
Positive(v) == v > 0
NonZero(volumes) == SelectSeq(volumes, Positive)

\* the value the defaultdict makes for a new key
NewHistory == [spreads |-> <<>>, base_volumes |-> <<>>, divine_volumes |-> <<>>]

\* a slip: the id keeps the order in which the graph is iterated
CanonicalId_AsIterated(a, b) == <<a, Sep, b>>

\* f"{market_pair[0]}|{market_pair[1]}" of the sorted pair
CanonicalId(a, b) == <<SortedPair(a, b)[1], Sep, SortedPair(a, b)[2]>>

\* (max_price / min_price) - 1
TrendSpreadWidth(prices) == RSub(RDiv(prices.max_price, prices.min_price), One)

\* a slip: a volume is appended only when it is positive
TrackPair_PositiveVolumes(history, g, hour_idx, a, b, base) ==
    LET prices == Edge(g, a, b)
        market_id == CanonicalId(a, b)
        old == IF Has(history, market_id) THEN history.val[market_id] ELSE NewHistory
        point == [hour_index |-> hour_idx,
                  spread |-> TrendSpreadWidth(prices),
                  min_price |-> prices.min_price,
                  max_price |-> prices.max_price,
                  volume |-> prices.volume]
    IN  Put(history, market_id,
            [spreads |-> Append(old.spreads, point),
             base_volumes |-> old.base_volumes \o NonZero(<<VolumeOf(prices, base)>>),
             divine_volumes |-> old.divine_volumes
                                   \o NonZero(<<VolumeOf(prices, "divine")>>)])

\* the body of the inner loop for the edge a -> b of hour hour_idx
TrackPair(history, g, hour_idx, a, b, base) ==
    LET prices == Edge(g, a, b)
        market_id == CanonicalId(a, b)
        old == IF Has(history, market_id) THEN history.val[market_id] ELSE NewHistory
        point == [hour_index |-> hour_idx,
                  spread |-> TrendSpreadWidth(prices),
                  min_price |-> prices.min_price,
                  max_price |-> prices.max_price,
                  volume |-> prices.volume]
    IN  IF RLess(Zero, prices.max_price)
        THEN Put(history, market_id,
                 [spreads |-> Append(old.spreads, point),
                  base_volumes |-> Append(old.base_volumes, VolumeOf(prices, base)),
                  divine_volumes |-> Append(old.divine_volumes,
                                            VolumeOf(prices, "divine"))])
        ELSE history

\* the two inner loops over one hour's graph
RECURSIVE TrackHourFrom(_, _, _, _, _, _)
TrackHourFrom(history, g, hour_idx, pairs, i, base) ==
    IF i > Len(pairs) THEN history
    ELSE TrackHourFrom(TrackPair(history, g, hour_idx, pairs[i][1], pairs[i][2], base),
                       g, hour_idx, pairs, i + 1, base)

\* for hour_idx, analyzer in enumerate(self.analyzers), from list index i
RECURSIVE AnalyzeFrom(_, _, _, _)
AnalyzeFrom(history, graphs, i, base) ==
    IF i > Len(graphs) THEN history
    ELSE AnalyzeFrom(TrackHourFrom(history, graphs[i], i - 1,
                                   UniquePairs(graphs[i]), 1, base),
                     graphs, i + 1, base)

\* the pairs of keys of all the graphs, from graph i on
RECURSIVE KeyPairsFrom(_, _)
KeyPairsFrom(graphs, i) ==
    IF i > Len(graphs) THEN <<>>
    ELSE LET keys == graphs[i].keys
             all == [t \in 1..(Len(keys) * Len(keys)) |->
                       <<keys[((t - 1) \div Len(keys)) + 1],
                         keys[((t - 1) % Len(keys)) + 1]>>]
             Distinct(e) == e[1] # e[2]
         IN  SelectSeq(all, Distinct) \o KeyPairsFrom(graphs, i + 1)

\* an empty entry for each pair of pairs[i..] that has none
RECURSIVE Prepopulated(_, _, _)
Prepopulated(table, pairs, i) ==
    IF i > Len(pairs) THEN table
    ELSE LET market_id == CanonicalId(pairs[i][1], pairs[i][2]) IN
         Prepopulated(IF Has(table, market_id) THEN table
                      ELSE Put(table, market_id, NewHistory),
                      pairs, i + 1)

\* a slip: the table starts with an empty entry for every pair of discovered
\* currencies
_analyze_trends_Prepopulated(graphs, base) ==
    AnalyzeFrom(Prepopulated(EmptyDict, KeyPairsFrom(graphs, 1), 1), graphs, 1, base)

_analyze_trends(graphs, base) == AnalyzeFrom(EmptyDict, graphs, 1, base)

(***************************************************************************)
(* statistics on lists of numbers                                          *)
(***************************************************************************)
RECURSIVE SumRats(_, _)
SumRats(list, i) == IF i > Len(list) THEN Zero ELSE RAdd(list[i], SumRats(list, i + 1))

\* statistics.mean of a non-empty list of floats
MeanRats(list) == RDiv(SumRats(list, 1), Rat(Len(list)))

\* statistics.mean of a list of volumes, 0 for the empty list (the guard
\* `if non_zero_base else 0`)
MeanIntsOrZero(list) == IF Len(list) = 0 THEN Zero ELSE Norm(SumInts(list, 1), Len(list))

\* sorted(list) of floats
SortRats(list) ==
    LET desc == SortDescending([i \in 1..Len(list) |-> <<list[i], list[i]>>])
    IN  [i \in 1..Len(desc) |-> desc[Len(desc) + 1 - i]]

\* statistics.median of a non-empty list of floats
MedianRats(list) ==
    LET sorted == SortRats(list)
        k == Len(sorted)
    IN  IF k % 2 = 1 THEN sorted[(k + 1) \div 2]
        ELSE RDiv(RAdd(sorted[k \div 2], sorted[k \div 2 + 1]), Rat(2))

\* max(list) and min(list) of a non-empty list of floats
MaxRats(list) == SortRats(list)[Len(list)]
MinRats(list) == SortRats(list)[1]

\* [d['spread'] for d in spread_data]
SpreadsOf(spread_data) == [i \in 1..Len(spread_data) |-> spread_data[i].spread]

\* TrendAnalyzer._calculate_divine_base_ratio
TrendAnalyzer_calculate_divine_base_ratio(graphs, base) ==
    LET HasDirect(g) == HasEdge(g, "divine", base)
        direct == SelectSeq(graphs, HasDirect)
        divine_base_ratios ==
            [i \in 1..Len(direct) |->
               RDiv(RAdd(Edge(direct[i], "divine", base).min_price,
                         Edge(direct[i], "divine", base).max_price), Rat(2))]
    IN  IF Len(divine_base_ratios) > 0 THEN MedianRats(divine_base_ratios)
        ELSE IF base = "chaos" THEN Rat(250) ELSE Rat(30)

(***************************************************************************)
(* TrendAnalyzer.get_persistent_spread_markets                             *)
(***************************************************************************)
\* the arguments get_persistent_spread_markets is called with:
\* <<min_spread, persistence_threshold, min_avg_volume, top_n>>
PersistentArgs ==
    { <<<<1, 50>>, <<1, 2>>, 0, 10>>,
      <<<<1, 25>>, One, 0, 10>>,
      <<<<1, 25>>, <<1, 2>>, 0, 1>>,
      <<<<1, 50>>, <<1, 2>>, 100, 10>> }

\* the arguments get_trending_markets is called with:
\* <<lookback_hours, min_avg_volume, top_n>>
TrendingArgs ==
    { <<0 - 1, 0, 10>>, <<0, 0, 10>>, <<1, 0, 10>>, <<2, 0, 10>>, <<3, 0, 1>>,
      <<2, 100, 10>> }

\* list[:top_n] for top_n >= 0
Take(list, top_n) == SubSeq(list, 1, IF top_n < Len(list) THEN top_n ELSE Len(list))

\* sum(1 for d in spread_data if d['spread'] >= min_spread)
HoursWithSpread(spread_data, min_spread) ==
    Cardinality({i \in 1..Len(spread_data) : RLeq(min_spread, spread_data[i].spread)})

\* persistence_ratio
PersistenceRatio(spread_data, min_spread) ==
    Norm(HoursWithSpread(spread_data, min_spread), Len(spread_data))

\* max(avg_base_volume, avg_divine_volume * self.divine_to_base_ratio)
MaxAvgVolumeInBase(base_volumes, divine_volumes, ratio) ==
    RMax(MeanIntsOrZero(NonZero(base_volumes)),
         RMul(MeanIntsOrZero(NonZero(divine_volumes)), ratio))

\* hours_with_volume = max(hours_with_base, hours_with_divine)
HoursWithVolume(base_volumes, divine_volumes) ==
    LET hours_with_base == Len(NonZero(base_volumes))
        hours_with_divine == Len(NonZero(divine_volumes))
    IN  IF hours_with_base < hours_with_divine THEN hours_with_divine
        ELSE hours_with_base

\* a slip: a pair is kept when its ratio is below the threshold
PersistentKept_Below(history, min_spread, persistence_threshold, min_avg_volume, ratio) ==
    /\ Len(history.spreads) >= 2
    /\ RLess(PersistenceRatio(history.spreads, min_spread), persistence_threshold)

\* a slip: one recorded hour is enough
PersistentKept_OneHour(history, min_spread, persistence_threshold, min_avg_volume, ratio) ==
    /\ Len(history.spreads) >= 1
    /\ RLeq(persistence_threshold, PersistenceRatio(history.spreads, min_spread))
    /\ ~RLess(MaxAvgVolumeInBase(history.base_volumes, history.divine_volumes, ratio),
              Rat(min_avg_volume))

\* the tests a pair passes before it is appended
PersistentKept(history, min_spread, persistence_threshold, min_avg_volume, ratio) ==
    /\ Len(history.spreads) >= 2
    /\ RLeq(persistence_threshold, PersistenceRatio(history.spreads, min_spread))
    /\ ~RLess(MaxAvgVolumeInBase(history.base_volumes, history.divine_volumes, ratio),
              Rat(min_avg_volume))

\* the record appended to persistent_markets (std_dev, a square root, is
\* left out)
PersistentEntry(market_id, history, min_spread) ==
    LET spread_data == history.spreads
        spreads == SpreadsOf(spread_data)
        latest == spread_data[Len(spread_data)]
        hours_with_volume == HoursWithVolume(history.base_volumes, history.divine_volumes)
    IN  [market_id |-> market_id,
         persistence_ratio |-> PersistenceRatio(spread_data, min_spread),
         hours_with_spread |-> HoursWithSpread(spread_data, min_spread),
         total_hours |-> Len(spread_data),
         avg_spread |-> MeanRats(spreads),
         median_spread |-> MedianRats(spreads),
         max_spread |-> MaxRats(spreads),
         min_spread |-> MinRats(spreads),
         avg_base_volume |-> MeanIntsOrZero(NonZero(history.base_volumes)),
         avg_divine_volume |-> MeanIntsOrZero(NonZero(history.divine_volumes)),
         total_base_volume |-> SumInts(history.base_volumes, 1),
         total_divine_volume |-> SumInts(history.divine_volumes, 1),
         hours_with_volume |-> hours_with_volume,
         volume_consistency |-> Norm(hours_with_volume, Len(spread_data)),
         latest_spread |-> latest.spread,
         latest_min_price |-> latest.min_price,
         latest_max_price |-> latest.max_price,
         latest_base_volume |-> history.base_volumes[Len(history.base_volumes)],
         latest_divine_volume |-> history.divine_volumes[Len(history.divine_volumes)]]

\* the sort key: persistence_ratio * avg_spread * (1 + volume_consistency)
PersistentKey(x) ==
    RMul(RMul(x.persistence_ratio, x.avg_spread), RAdd(One, x.volume_consistency))

\* TrendAnalyzer.get_persistent_spread_markets on the history table `table`
PersistentMarkets(table, ratio, min_spread, persistence_threshold, min_avg_volume, top_n) ==
    LET Keep(market_id) == PersistentKept(table.val[market_id], min_spread,
                                          persistence_threshold, min_avg_volume, ratio)
        kept == SelectSeq(table.keys, Keep)
        entry(i) == PersistentEntry(kept[i], table.val[kept[i]], min_spread)
    IN  Take(SortDescending([i \in 1..Len(kept) |-> <<PersistentKey(entry(i)), entry(i)>>]),
             top_n)

(***************************************************************************)
(* TrendAnalyzer.get_trending_markets                                      *)
(***************************************************************************)
\* list[-k:] : the last k elements for 0 < k < len, the whole list for
\* k = 0 (-0 is 0) and for k >= len, the list without its first -k
\* elements for k < 0
LastSlice(list, k) ==
    IF k = 0 THEN list
    ELSE IF k > 0
    THEN (IF k >= Len(list) THEN list ELSE SubSeq(list, Len(list) - k + 1, Len(list)))
    ELSE SubSeq(list, (0 - k) + 1, Len(list))

\* sum((x - mean_x) * (y - mean_y) for x, y in zip(x_values, recent_spreads))
SlopeNumerator(ys) ==
    LET k == Len(ys)
        mean_x == Norm(k - 1, 2)
        mean_y == MeanRats(ys)
    IN  SumRats([i \in 1..k |-> RMul(RSub(Rat(i - 1), mean_x), RSub(ys[i], mean_y))], 1)

\* sum((x - mean_x) ** 2 for x in x_values)
SlopeDenominator(ys) ==
    LET k == Len(ys)
        mean_x == Norm(k - 1, 2)
    IN  SumRats([i \in 1..k |-> RMul(RSub(Rat(i - 1), mean_x),
                                     RSub(Rat(i - 1), mean_x))], 1)

\* a slip: the slope of the spreads taken in reverse order
Slope_Reversed(ys) ==
    RDiv(SlopeNumerator([i \in 1..Len(ys) |-> ys[Len(ys) + 1 - i]]), SlopeDenominator(ys))

\* slope = numerator / denominator (denominator nonzero)
Slope(ys) == RDiv(SlopeNumerator(ys), SlopeDenominator(ys))

\* the tests a pair passes before it is appended
TrendingKept(history, lookback_hours, min_avg_volume, ratio) ==
    /\ ~(Len(history.spreads) < lookback_hours)
    /\ LET recent_spreads == SpreadsOf(LastSlice(history.spreads, lookback_hours))
           recent_base_volumes == LastSlice(history.base_volumes, lookback_hours)
           recent_divine_volumes == LastSlice(history.divine_volumes, lookback_hours)
       IN  /\ ~(Len(recent_spreads) < 2)
           /\ ~RLess(MaxAvgVolumeInBase(recent_base_volumes, recent_divine_volumes, ratio),
                     Rat(min_avg_volume))
           /\ ~IsZero(SlopeDenominator(recent_spreads))
           /\ RLess(Zero, Slope(recent_spreads))

\* the record appended to trending_markets
TrendingEntry(market_id, history, lookback_hours) ==
    LET spread_data == history.spreads
        recent_spreads == SpreadsOf(LastSlice(spread_data, lookback_hours))
        recent_base_volumes == LastSlice(history.base_volumes, lookback_hours)
        recent_divine_volumes == LastSlice(history.divine_volumes, lookback_hours)
    IN  [market_id |-> market_id,
         trend_slope |-> Slope(recent_spreads),
         latest_spread |-> spread_data[Len(spread_data)].spread,
         avg_recent_spread |-> MeanRats(recent_spreads),
         spread_change |-> RSub(recent_spreads[Len(recent_spreads)], recent_spreads[1]),
         hours_analyzed |-> Len(recent_spreads),
         avg_base_volume |-> MeanIntsOrZero(NonZero(recent_base_volumes)),
         avg_divine_volume |-> MeanIntsOrZero(NonZero(recent_divine_volumes)),
         latest_base_volume |-> recent_base_volumes[Len(recent_base_volumes)],
         latest_divine_volume |-> recent_divine_volumes[Len(recent_divine_volumes)]]

\* TrendAnalyzer.get_trending_markets on the history table `table`
TrendingMarkets(table, ratio, lookback_hours, min_avg_volume, top_n) ==
    LET Keep(market_id) == TrendingKept(table.val[market_id], lookback_hours,
                                        min_avg_volume, ratio)
        kept == SelectSeq(table.keys, Keep)
        entry(i) == TrendingEntry(kept[i], table.val[kept[i]], lookback_hours)
    IN  Take(SortDescending([i \in 1..Len(kept) |-> <<entry(i).trend_slope, entry(i)>>]),
             top_n)

(***************************************************************************)
(* TrendAnalyzer.compare_with_current                                      *)
(***************************************************************************)
\* a slip: the spreads at or below the value are counted
CountBelow_OrEqual(value, spreads) ==
    Cardinality({i \in 1..Len(spreads) : RLeq(spreads[i], value)})

\* count_below = sum(1 for s in spreads if s < value)
CountBelow(value, spreads) ==
    Cardinality({i \in 1..Len(spreads) : RLess(spreads[i], value)})

\* TrendAnalyzer._calculate_percentile
_calculate_percentile(value, spread_data) ==
    IF Len(spread_data) = 0 THEN Zero
    ELSE RMul(Norm(CountBelow(value, SpreadsOf(spread_data)), Len(spread_data)),
              Rat(100))

\* the literal 0.001
MinCurrentSpread == <<1, 1000>>

\* the tests the pair of edge a -> b of the current graph passes
ComparisonKept(table, g, a, b) ==
    /\ RLess(Zero, Edge(g, a, b).max_price)
    /\ Has(table, CanonicalId(a, b))
    /\ RLess(MinCurrentSpread, TrendSpreadWidth(Edge(g, a, b)))

\* the record appended to opportunities_with_context
ComparisonEntry(table, g, a, b) ==
    LET market_id == CanonicalId(a, b)
        current_spread == TrendSpreadWidth(Edge(g, a, b))
        spread_data == table.val[market_id].spreads
        spreads == SpreadsOf(spread_data)
    IN  [market_id |-> market_id,
         current_spread |-> current_spread,
         historical_avg |-> MeanRats(spreads),
         historical_max |-> MaxRats(spreads),
         historical_median |-> MedianRats(spreads),
         hours_tracked |-> Len(spread_data),
         vs_avg |-> RSub(current_spread, MeanRats(spreads)),
         percentile |-> _calculate_percentile(current_spread, spread_data)]

\* TrendAnalyzer.compare_with_current(current_analyzer), g the graph of
\* current_analyzer
OpportunitiesWithContext(table, g) ==
    LET Keep(e) == ComparisonKept(table, g, e[1], e[2])
        kept == SelectSeq(UniquePairs(g), Keep)
        entry(i) == ComparisonEntry(table, g, kept[i][1], kept[i][2])
    IN  SortDescending([i \in 1..Len(kept) |-> <<entry(i).vs_avg, entry(i)>>])

(***************************************************************************)
(* The state machine                                                       *)
(***************************************************************************)
NoCall == [op |-> "none"]

\* no TradeAPIClient is being followed
ClientOff ==
    /\ cache_files = EmptyMap
    /\ api_requests = <<>>
    /\ fetch_log = <<>>

\* no multi-hour run is under way
TrendOff ==
    /\ trend_pc = "off"
    /\ timestamps = <<>>
    /\ hourly_data_list = <<>>
    /\ current_markets = NoData
    /\ analyzers = <<>>
    /\ market_history = EmptyDict
    /\ trend_divine_to_base_ratio = Unset
    /\ trend_exception = "none"
    /\ trend_call = NoCall
    /\ trend_returned = <<>>

Init ==
    /\ realm \in Realms
    /\ ClientOff
    /\ TrendOff
    /\ pc = "process"
    /\ exception = "none"
    /\ n = 0
    /\ market = EmptyMap
    /\ markets = EmptyDict
    /\ divine_to_base_ratio = Unset
    /\ market_base_volumes = <<>>
    /\ market_divine_volumes = <<>>
    /\ base_stats = NoStats
    /\ divine_stats = NoStats
    /\ last_call = NoCall
    /\ opportunities = <<>>
    /\ returned = [kind |-> None]

\* one iteration of `for market in market_data.get('markets', [])`
_process_markets ==
    /\ pc = "process"
    /\ n < MaxRecords
    /\ \E m \in Records :
         LET r == ProcessRecord(markets, m) IN
         /\ market' = m
         /\ markets' = r.graph
         /\ exception' = IF Raises(r.outcome) THEN r.outcome ELSE "none"
         /\ pc' = IF Raises(r.outcome) THEN "raised" ELSE "process"
    /\ n' = n + 1
    /\ UNCHANGED <<realm, divine_to_base_ratio, market_base_volumes,
                   market_divine_volumes, base_stats, divine_stats,
                   last_call, opportunities, returned>>
    /\ UNCHANGED trendVars
    /\ UNCHANGED clientVars

\* the loop ends; __init__ runs _calculate_divine_base_ratio and
\* _perform_initial_calculations and returns
_perform_initial_calculations ==
    /\ pc = "process"
    /\ pc' = "built"
    /\ market' = EmptyMap
    /\ n' = 0
    /\ divine_to_base_ratio' = _calculate_divine_base_ratio(markets, base_currency)
    /\ market_base_volumes' = VolumeIndex(markets, base_currency)
    /\ market_divine_volumes' = VolumeIndex(markets, "divine")
    /\ base_stats' = _calculate_currency_stats(
                         MarketDataList(markets, base_currency), "base_volume")
    /\ divine_stats' = _calculate_currency_stats(
                         MarketDataList(markets, base_currency), "divine_volume")
    /\ UNCHANGED <<realm, exception, markets, last_call, opportunities, returned>>
    /\ UNCHANGED trendVars
    /\ UNCHANGED clientVars

get_top_spread_opportunities ==
    /\ pc = "built"
    /\ \E hide_zero_volume \in BOOLEAN, threshold \in SpreadThresholds :
         /\ last_call' = [op |-> "spread", hide_zero_volume |-> hide_zero_volume,
                          threshold |-> threshold]
         /\ opportunities' = SpreadOpportunities(hide_zero_volume, threshold)
         /\ returned' = SpreadReturn(opportunities')
    /\ UNCHANGED <<realm, pc, exception, n, market, markets, divine_to_base_ratio,
                   market_base_volumes, market_divine_volumes, base_stats,
                   divine_stats>>
    /\ UNCHANGED trendVars
    /\ UNCHANGED clientVars

get_top_triangular_inefficiencies ==
    /\ pc = "built"
    /\ \E hide_zero_volume \in BOOLEAN, min_percentile \in MinPercentiles :
         /\ last_call' = [op |-> "triangular", hide_zero_volume |-> hide_zero_volume,
                          min_percentile |-> min_percentile]
         /\ opportunities' = TriangularOpportunities(hide_zero_volume, min_percentile)
         /\ returned' = TriangularReturn(opportunities')
    /\ UNCHANGED <<realm, pc, exception, n, market, markets, divine_to_base_ratio,
                   market_base_volumes, market_divine_volumes, base_stats,
                   divine_stats>>
    /\ UNCHANGED trendVars
    /\ UNCHANGED clientVars

Next ==
    \/ _process_markets
    \/ _perform_initial_calculations
    \/ get_top_spread_opportunities
    \/ get_top_triangular_inefficiencies

Spec == Init /\ [][Next]_vars

(***************************************************************************)
(* The state machine of a TrendAnalyzer: built from a list of hourly       *)
(* payloads, then queried                                                  *)
(***************************************************************************)
\* no single MarketAnalyzer is being followed
AnalyzerIdle ==
    /\ pc = "idle"
    /\ exception = "none"
    /\ n = 0
    /\ market = EmptyMap
    /\ markets = EmptyDict
    /\ divine_to_base_ratio = Unset
    /\ market_base_volumes = <<>>
    /\ market_divine_volumes = <<>>
    /\ base_stats = NoStats
    /\ divine_stats = NoStats
    /\ last_call = NoCall
    /\ opportunities = <<>>
    /\ returned = [kind |-> None]

\* the lists of 1..MaxHours payloads
HourlyDataLists == UNION {[1..k -> HourPayloads] : k \in 1..MaxHours}

\* TrendAnalyzer(hourly_data_list, league, realm) is about to be called
TrendInit ==
    /\ realm \in Realms
    /\ ClientOff
    /\ AnalyzerIdle
    /\ trend_pc = "construct"
    /\ timestamps = <<>>
    /\ hourly_data_list \in HourlyDataLists
    /\ current_markets = NoData
    /\ analyzers = <<>>
    /\ market_history = EmptyDict
    /\ trend_divine_to_base_ratio = Unset
    /\ trend_exception = "none"
    /\ trend_call = NoCall
    /\ trend_returned = <<>>

\* TrendAnalyzer.__init__: the analyzers of all hours, then _analyze_trends
\* and _calculate_divine_base_ratio; an exception of a MarketAnalyzer
\* constructor leaves __init__
TrendAnalyzer_init ==
    /\ trend_pc = "construct"
    /\ LET a == AnalyzersFrom(hourly_data_list, 1, <<>>) IN
       IF Raises(a.outcome)
       THEN /\ trend_pc' = "raised"
            /\ trend_exception' = a.outcome
            /\ UNCHANGED <<analyzers, market_history, trend_divine_to_base_ratio>>
       ELSE /\ trend_pc' = "built"
            /\ analyzers' = a.analyzers
            /\ market_history' = _analyze_trends(a.analyzers, base_currency)
            /\ trend_divine_to_base_ratio' =
                   TrendAnalyzer_calculate_divine_base_ratio(a.analyzers, base_currency)
            /\ UNCHANGED trend_exception
    /\ UNCHANGED <<realm, analyzerVars, timestamps, hourly_data_list, current_markets,
                   trend_call, trend_returned>>
    /\ UNCHANGED clientVars

get_persistent_spread_markets ==
    /\ trend_pc = "built"
    /\ \E args \in PersistentArgs :
         /\ trend_call' = [op |-> "persistent", min_spread |-> args[1],
                           persistence_threshold |-> args[2],
                           min_avg_volume |-> args[3], top_n |-> args[4]]
         /\ trend_returned' = PersistentMarkets(market_history, trend_divine_to_base_ratio,
                                  args[1], args[2], args[3], args[4])
    /\ UNCHANGED <<realm, analyzerVars, trend_pc, timestamps, hourly_data_list,
                   current_markets, analyzers, market_history,
                   trend_divine_to_base_ratio, trend_exception>>
    /\ UNCHANGED clientVars

get_trending_markets ==
    /\ trend_pc = "built"
    /\ \E args \in TrendingArgs :
         /\ trend_call' = [op |-> "trending", lookback_hours |-> args[1],
                           min_avg_volume |-> args[2], top_n |-> args[3]]
         /\ trend_returned' = TrendingMarkets(market_history, trend_divine_to_base_ratio,
                                  args[1], args[2], args[3])
    /\ UNCHANGED <<realm, analyzerVars, trend_pc, timestamps, hourly_data_list,
                   current_markets, analyzers, market_history,
                   trend_divine_to_base_ratio, trend_exception>>
    /\ UNCHANGED clientVars

\* the table after get_market_summary has read self.market_history[market_id]
\* for every pair of g: the defaultdict makes an entry for a pair without one
RECURSIVE WithDefaults(_, _, _)
WithDefaults(table, pairs, i) ==
    IF i > Len(pairs) THEN table
    ELSE LET market_id == CanonicalId(pairs[i][1], pairs[i][2]) IN
         WithDefaults(IF Has(table, market_id) THEN table
                      ELSE Put(table, market_id, NewHistory),
                      pairs, i + 1)

\* a slip: the summary is read without the membership test, so the table
\* gets an empty entry for every current pair that has no history
compare_with_current_Inserting ==
    /\ trend_pc = "built"
    /\ \E data \in HourPayloads :
         /\ ~Raises(MarketAnalyzer(data).outcome)
         /\ trend_call' = [op |-> "compare", current |-> MarketAnalyzer(data).graph]
         /\ trend_returned' =
                OpportunitiesWithContext(market_history, MarketAnalyzer(data).graph)
         /\ market_history' = WithDefaults(market_history,
                                   UniquePairs(MarketAnalyzer(data).graph), 1)
    /\ UNCHANGED <<realm, analyzerVars, trend_pc, timestamps, hourly_data_list,
                   current_markets, analyzers, trend_divine_to_base_ratio,
                   trend_exception>>
    /\ UNCHANGED clientVars

\* compare_with_current(current_analyzer), current_analyzer built from any
\* payload whose constructor returns
compare_with_current ==
    /\ trend_pc = "built"
    /\ \E data \in HourPayloads :
         /\ ~Raises(MarketAnalyzer(data).outcome)
         /\ trend_call' = [op |-> "compare", current |-> MarketAnalyzer(data).graph]
         /\ trend_returned' =
                OpportunitiesWithContext(market_history, MarketAnalyzer(data).graph)
    /\ UNCHANGED <<realm, analyzerVars, trend_pc, timestamps, hourly_data_list,
                   current_markets, analyzers, market_history,
                   trend_divine_to_base_ratio, trend_exception>>
    /\ UNCHANGED clientVars

TrendNext ==
    \/ TrendAnalyzer_init
    \/ get_persistent_spread_markets
    \/ get_trending_markets
    \/ compare_with_current

TrendSpec == TrendInit /\ [][TrendNext]_vars

(***************************************************************************)
(* The state machine of main's multi-hour trend run, from the fetch loop   *)
(* to the comparison with the current hour                                 *)
(***************************************************************************)
\* what client.fetch_hourly_data returns: a payload, or None
FetchResults == HourPayloads \cup {NoData}

\* a slip: the hours are counted forward from target_timestamp
Ts_Ahead(i) == 0 + (i * 3600)

\* ts = target_timestamp - (i * 3600), in seconds from target_timestamp
Ts(i) == 0 - (i * 3600)

Min(a, b) == IF a <= b THEN a ELSE b

\* the single-hour analysis is over, current_markets is a payload, and the
\* trend run starts with two empty lists
MainInit ==
    /\ realm \in Realms
    /\ ClientOff
    /\ AnalyzerIdle
    /\ trend_pc = "fetch"
    /\ timestamps = <<>>
    /\ hourly_data_list = <<>>
    /\ current_markets \in HourPayloads
    /\ analyzers = <<>>
    /\ market_history = EmptyDict
    /\ trend_divine_to_base_ratio = Unset
    /\ trend_exception = "none"
    /\ trend_call = NoCall
    /\ trend_returned = <<>>

\* one iteration of `for i in range(trend_hours, 0, -1)`
main_fetch ==
    /\ trend_pc = "fetch"
    /\ Len(timestamps) < TREND_HOURS
    /\ LET i == TREND_HOURS - Len(timestamps) IN
       timestamps' = Append(timestamps, Ts(i))
    /\ \E data \in FetchResults :
         hourly_data_list' = IF data # NoData
                             THEN Append(hourly_data_list, data)
                             ELSE hourly_data_list
    /\ UNCHANGED <<realm, analyzerVars, trend_pc, current_markets, analyzers,
                   market_history, trend_divine_to_base_ratio, trend_exception,
                   trend_call, trend_returned>>
    /\ UNCHANGED clientVars

\* the loop is over: the current hour is added and the length is tested
main_collect ==
    /\ trend_pc = "fetch"
    /\ Len(timestamps) = TREND_HOURS
    /\ hourly_data_list' = Append(hourly_data_list, current_markets)
    /\ trend_pc' = IF Len(hourly_data_list') >= 2 THEN "construct" ELSE "insufficient"
    /\ UNCHANGED <<realm, analyzerVars, timestamps, current_markets, analyzers,
                   market_history, trend_divine_to_base_ratio, trend_exception,
                   trend_call, trend_returned>>
    /\ UNCHANGED clientVars

\* get_persistent_spread_markets and display_persistent_markets with the
\* configured arguments
main_persistent ==
    /\ trend_pc = "built"
    /\ trend_pc' = "persistent_done"
    /\ \E args \in PersistentArgs :
         /\ trend_call' = [op |-> "persistent", min_spread |-> args[1],
                           persistence_threshold |-> args[2],
                           min_avg_volume |-> args[3], top_n |-> args[4]]
         /\ trend_returned' = PersistentMarkets(market_history, trend_divine_to_base_ratio,
                                  args[1], args[2], args[3], args[4])
    /\ UNCHANGED <<realm, analyzerVars, timestamps, hourly_data_list,
                   current_markets, analyzers, market_history,
                   trend_divine_to_base_ratio, trend_exception>>
    /\ UNCHANGED clientVars

\* get_trending_markets and display_trending_markets with
\* lookback_hours = min(config.TRENDING_LOOKBACK_HOURS, len(hourly_data_list))
main_trending ==
    /\ trend_pc = "persistent_done"
    /\ trend_pc' = "trending_done"
    /\ \E args \in TrendingArgs :
         LET lookback_hours == Min(args[1], Len(hourly_data_list)) IN
         /\ trend_call' = [op |-> "trending", lookback_hours |-> lookback_hours,
                           min_avg_volume |-> args[2], top_n |-> args[3]]
         /\ trend_returned' = TrendingMarkets(market_history, trend_divine_to_base_ratio,
                                  lookback_hours, args[2], args[3])
    /\ UNCHANGED <<realm, analyzerVars, timestamps, hourly_data_list,
                   current_markets, analyzers, market_history,
                   trend_divine_to_base_ratio, trend_exception>>
    /\ UNCHANGED clientVars

\* display_current_vs_historical(current_analyzer), current_analyzer being
\* the MarketAnalyzer of current_markets
main_compare ==
    /\ trend_pc = "trending_done"
    /\ trend_pc' = "done"
    /\ LET current_analyzer == MarketAnalyzer(current_markets) IN
       /\ trend_call' = [op |-> "compare", current |-> current_analyzer.graph]
       /\ trend_returned' = OpportunitiesWithContext(market_history, current_analyzer.graph)
    /\ UNCHANGED <<realm, analyzerVars, timestamps, hourly_data_list,
                   current_markets, analyzers, market_history,
                   trend_divine_to_base_ratio, trend_exception>>
    /\ UNCHANGED clientVars

MainNext ==
    \/ main_fetch
    \/ main_collect
    \/ TrendAnalyzer_init
    \/ main_persistent
    \/ main_trending
    \/ main_compare

MainSpec == MainInit /\ [][MainNext]_vars

(***************************************************************************)
(* The state machine of a TrendAnalyzer whose payloads may carry a         *)
(* negative ratio entry                                                    *)
(***************************************************************************)
\* a record of chaos|divine whose highest_ratio is negative for the second
\* token: max_price 103/100 and min_price -1
NegativeMinRecord ==
    Record(League, Id2("chaos", "divine"), M2("chaos", 100, "divine", 103),
           M2("chaos", 1, "divine", 0 - 1), M1("chaos", 5))

\* a record of chaos|exalted whose lowest_ratio is negative for the second
\* token: max_price -1 and min_price 1
NegativeMaxRecord ==
    Record(League, Id2("chaos", "exalted"), M2("chaos", 1, "exalted", 0 - 1),
           M2("chaos", 1, "exalted", 1), M1("chaos", 5))

SignedPayloads ==
    { Payload(<<NegativeMinRecord>>),
      Payload(<<TrendRecord("chaos", "divine", 3, M1("divine", 150)), NegativeMaxRecord>>),
      Payload(<<TrendRecord("divine", "chaos", 5, M2("chaos", 2, "divine", 2))>>) }

SignedDataLists == UNION {[1..k -> SignedPayloads] : k \in 1..MaxHours}

\* TrendAnalyzer(hourly_data_list, league, realm) is about to be called
SignedTrendInit ==
    /\ realm \in Realms
    /\ ClientOff
    /\ AnalyzerIdle
    /\ trend_pc = "construct"
    /\ timestamps = <<>>
    /\ hourly_data_list \in SignedDataLists
    /\ current_markets = NoData
    /\ analyzers = <<>>
    /\ market_history = EmptyDict
    /\ trend_divine_to_base_ratio = Unset
    /\ trend_exception = "none"
    /\ trend_call = NoCall
    /\ trend_returned = <<>>

SignedTrendSpec == SignedTrendInit /\ [][TrendNext]_vars

(***************************************************************************)
(* The state machine of the two analyzers side by side: a run follows one  *)
(* MarketAnalyzer or one TrendAnalyzer from construction through queries   *)
(***************************************************************************)
QueryInit ==
    \/ Init
    \/ TrendInit

QueryNext ==
    \/ _process_markets
    \/ _perform_initial_calculations
    \/ get_top_spread_opportunities
    \/ get_top_triangular_inefficiencies
    \/ TrendAnalyzer_init
    \/ get_persistent_spread_markets
    \/ get_trending_markets
    \/ compare_with_current

QuerySpec == QueryInit /\ [][QueryNext]_vars

(***************************************************************************)
(* Floating point: the program's `/` and `-` round their exact result to   *)
(* the nearest float, ties to even.  A float is kept as the fraction it    *)
(* equals; the significand has MantissaBits bits.                          *)
(***************************************************************************)
RECURSIVE Pow2(_)
Pow2(k) == IF k <= 0 THEN 1 ELSE 2 * Pow2(k - 1)

\* the largest e with 2^e <= a/den, for a/den >= 1
RECURSIVE ExponentUp(_, _, _)
ExponentUp(a, den, e) ==
    IF a >= den * Pow2(e + 1) THEN ExponentUp(a, den, e + 1) ELSE e

\* the least k with a/den >= 2^-k, for a/den < 1
RECURSIVE ExponentDown(_, _, _)
ExponentDown(a, den, k) ==
    IF a * Pow2(k) >= den THEN k ELSE ExponentDown(a, den, k + 1)

\* round-half-even of n/d to an integer, n >= 0 and d > 0
NearestEven(nn, d) ==
    LET fl == nn \div d
        twice == 2 * (nn % d)
    IN  IF twice > d \/ (twice = d /\ fl % 2 = 1) THEN fl + 1 ELSE fl

\* the float nearest to the fraction q
Round(q) ==
    IF q[1] = 0 THEN Zero
    ELSE LET a == Abs(q[1])
             den == q[2]
             sign == IF q[1] < 0 THEN 0 - 1 ELSE 1
             e == IF a >= den THEN ExponentUp(a, den, 0)
                  ELSE 0 - ExponentDown(a, den, 1)
             shift == e - MantissaBits + 1
         IN  IF shift >= 0
             THEN Norm(sign * NearestEven(a, den * Pow2(shift)) * Pow2(shift), 1)
             ELSE Norm(sign * NearestEven(a * Pow2(0 - shift), den), Pow2(0 - shift))

\* x / y and x - y on floats
FDiv(x, y) == Round(RDiv(x, y))
FSub(x, y) == Round(RSub(x, y))

\* the two edges _process_markets stores for an included record m of a|b
FloatForwardEdge(m, a, b) ==
    [max_price |-> FDiv(Rat(m.lowest_ratio[b]), Rat(m.lowest_ratio[a])),
     min_price |-> FDiv(Rat(m.highest_ratio[b]), Rat(m.highest_ratio[a])),
     volume |-> GetOr(m, "volume_traded", EmptyMap)]

\* a slip: the inverse edge keeps max and min in place
FloatInverseEdge_Unswapped(m, a, b) ==
    [max_price |-> FDiv(One, FloatForwardEdge(m, a, b).max_price),
     min_price |-> FDiv(One, FloatForwardEdge(m, a, b).min_price),
     volume |-> GetOr(m, "volume_traded", EmptyMap)]

FloatInverseEdge(m, a, b) ==
    [max_price |-> FDiv(One, FloatForwardEdge(m, a, b).min_price),
     min_price |-> FDiv(One, FloatForwardEdge(m, a, b).max_price),
     volume |-> GetOr(m, "volume_traded", EmptyMap)]

\* (prices['max_price'] / prices['min_price']) - 1
FloatSpreadWidth(prices) == FSub(FDiv(prices.max_price, prices.min_price), One)

\* included records of chaos|divine with ratio entries 1..MaxRatio
FloatRecords ==
    { Record(League, Id2("chaos", "divine"),
             M2("chaos", la, "divine", lb), M2("chaos", ha, "divine", hb), EmptyMap) :
        la \in 1..MaxRatio, lb \in 1..MaxRatio, ha \in 1..MaxRatio, hb \in 1..MaxRatio }

\* MarketAnalyzer is about to read a payload of one record
FloatInit ==
    /\ realm \in Realms
    /\ ClientOff
    /\ TrendOff
    /\ pc = "process"
    /\ exception = "none"
    /\ n = 0
    /\ market = EmptyMap
    /\ markets = EmptyDict
    /\ divine_to_base_ratio = Unset
    /\ market_base_volumes = <<>>
    /\ market_divine_volumes = <<>>
    /\ base_stats = NoStats
    /\ divine_stats = NoStats
    /\ last_call = NoCall
    /\ opportunities = <<>>
    /\ returned = [kind |-> None]

\* _process_markets on the one record, with the rounding of every division
float_process_markets ==
    /\ pc = "process"
    /\ pc' = "built"
    /\ n' = 1
    /\ \E m \in FloatRecords :
         /\ market' = m
         /\ markets' = StoreEdge(
                StoreEdge(EnsureKey(EnsureKey(EmptyDict, "chaos"), "divine"),
                          "chaos", "divine", FloatForwardEdge(m, "chaos", "divine")),
                "divine", "chaos", FloatInverseEdge(m, "chaos", "divine"))
    /\ UNCHANGED <<realm, exception, divine_to_base_ratio, market_base_volumes,
                   market_divine_volumes, base_stats, divine_stats, last_call,
                   opportunities, returned>>
    /\ UNCHANGED trendVars
    /\ UNCHANGED clientVars

FloatNext == float_process_markets

FloatSpec == FloatInit /\ [][FloatNext]_vars

(***************************************************************************)
(* TrendAnalyzer.get_market_summary                                        *)
(***************************************************************************)
\* get_market_summary(market_id) on the history table: None for an id without
\* history, else the statistics of its spreads
get_market_summary(table, market_id) ==
    IF ~Has(table, market_id) THEN [kind |-> None]
    ELSE LET spread_data == table.val[market_id].spreads
             spreads == SpreadsOf(spread_data)
         IN  [kind |-> "summary",
              market_id |-> market_id,
              hours_tracked |-> Len(spread_data),
              avg_spread |-> MeanRats(spreads),
              median_spread |-> MedianRats(spreads),
              max_spread |-> MaxRats(spreads),
              min_spread |-> MinRats(spreads)]

(***************************************************************************)
(* TradeAPIClient: fetch_hourly_data and its file cache                    *)
(***************************************************************************)
\* the hours asked of the client
ClientTimestamps == {3600, 7200}

\* os.path.join(self.cache_dir, f"currency_exchange_markets{realm_suffix}_{timestamp}.json"),
\* realm_suffix = f"_{realm}" if realm else "", kept apart from the timestamp
CacheFilename(timestamp, r) ==
    <<"data_exports",
      <<"currency_exchange_markets">> \o (IF r # None THEN <<"_", r>> ELSE <<>>),
      timestamp>>

\* a JSON document of the API with markets; the empty object is EmptyMap
Document(next_change_id) == [next_change_id |-> next_change_id, markets |-> <<>>]

\* a file of the cache is one of: no file ("absent"), the text of a JSON
\* document, text that is not JSON ("garbage": json.load raises
\* JSONDecodeError), or a file that exists and that open() or read() raises on
\* ("locked": PermissionError and the like, which the except clause of the
\* read does not name)
JsonFile(document) == [kind |-> "json", document |-> document]

\* the files a client may find when it starts: those earlier runs have left
FoundFiles ==
    {[kind |-> "absent"], JsonFile(Document("cached")), [kind |-> "garbage"],
     [kind |-> "locked"]}

\* what requests.get and raise_for_status come to: a response with a JSON
\* body, or a RequestException (429 rate limit, 500 server error)
HttpOutcomes ==
    {[status |-> "200", body |-> Document("fresh")], [status |-> "200", body |-> EmptyMap],
     [status |-> "429"], [status |-> "500"]}

\* get_currency_exchange_markets: response.json(), or None after a
\* RequestException (after the sleep of a 429)
get_currency_exchange_markets(http) ==
    IF http.status = "200" THEN http.body ELSE NoData

\* `if exchange_markets:` of a dict or None
Truthy(exchange_markets) ==
    exchange_markets # NoData /\ exchange_markets # EmptyMap

\* what `with open(filename, "w")` and json.dump come to: the file written,
\* open() raising IOError with the file untouched, or json.dump raising IOError
\* after open() has truncated the file
WriteOutcomes == {"written", "open_fails", "dump_fails"}

WriteCache(file, exchange_markets, write) ==
    CASE write = "written" -> JsonFile(exchange_markets)
      [] write = "open_fails" -> file
      [] write = "dump_fails" -> [kind |-> "garbage"]

\* a slip: the cache is not looked at
fetch_hourly_data_of_Uncached(files, timestamp, r, http, write) ==
    LET filename == CacheFilename(timestamp, r)
        exchange_markets == get_currency_exchange_markets(http)
    IN  IF Truthy(exchange_markets)
        THEN [files |-> [files EXCEPT ![filename] =
                            WriteCache(files[filename], exchange_markets, write)],
              sent |-> <<<<r, timestamp>>>>, raised |-> "none",
              returned |-> exchange_markets]
        ELSE [files |-> files, sent |-> <<<<r, timestamp>>>>, raised |-> "none",
              returned |-> NoData]

\* fetch_hourly_data(timestamp, realm) on the files of the cache, with the
\* outcome of the request and of the write it may make: the files afterwards,
\* the requests sent, the exception that leaves the call and the value returned
fetch_hourly_data_of(files, timestamp, r, http, write) ==
    LET filename == CacheFilename(timestamp, r)
        file == files[filename]
        exchange_markets == get_currency_exchange_markets(http)
    IN  IF file.kind = "locked"
        THEN [files |-> files, sent |-> <<>>, raised |-> "PermissionError",
              returned |-> NoData]
        ELSE IF file.kind = "json"
        THEN [files |-> files, sent |-> <<>>, raised |-> "none",
              returned |-> file.document]
        ELSE IF Truthy(exchange_markets)
        THEN [files |-> [files EXCEPT ![filename] = WriteCache(file, exchange_markets, write)],
              sent |-> <<<<r, timestamp>>>>, raised |-> "none",
              returned |-> exchange_markets]
        ELSE [files |-> files, sent |-> <<<<r, timestamp>>>>, raised |-> "none",
              returned |-> NoData]

\* a client over a cache directory earlier runs may have filled
ClientInit ==
    /\ realm \in Realms
    /\ AnalyzerIdle
    /\ TrendOff
    /\ cache_files \in [{CacheFilename(timestamp, r) :
                            timestamp \in ClientTimestamps, r \in Realms} -> FoundFiles]
    /\ api_requests = <<>>
    /\ fetch_log = <<>>

\* one call of fetch_hourly_data, from main or any other caller
fetch_hourly_data ==
    /\ Len(fetch_log) < MaxCalls
    /\ \E timestamp \in ClientTimestamps, r \in Realms, http \in HttpOutcomes,
          write \in WriteOutcomes :
         LET call == fetch_hourly_data_of(cache_files, timestamp, r, http, write) IN
         /\ cache_files' = call.files
         /\ api_requests' = api_requests \o call.sent
         /\ fetch_log' = Append(fetch_log,
                                [timestamp |-> timestamp, realm |-> r,
                                 found |-> cache_files[CacheFilename(timestamp, r)],
                                 left |-> call.files[CacheFilename(timestamp, r)],
                                 sent |-> Len(call.sent), raised |-> call.raised,
                                 returned |-> call.returned])
    /\ UNCHANGED <<realm, analyzerVars, trendVars>>

ClientNext == fetch_hourly_data

ClientSpec == ClientInit /\ [][ClientNext]_vars

(***************************************************************************)
(* Claims about the graph builder                                          *)
(***************************************************************************)
\* a step of the builder's loop: the record it handled is market'
BuilderStep == pc = "process" /\ n' = n + 1

\* the pair id is two non-empty tokens around one '|'
TwoTokenId(m) ==
    /\ "market_id" \in DOMAIN m
    /\ Len(m.market_id) = 3
    /\ m.market_id[1] # Sep
    /\ m.market_id[2] = Sep
    /\ m.market_id[3] # Sep

\* right league, two tokens, and all four ratio entries present
HasAllRatios(m) ==
    /\ GetOr(m, "league", None) = League
    /\ TwoTokenId(m)
    /\ "lowest_ratio" \in DOMAIN m
    /\ "highest_ratio" \in DOMAIN m
    /\ {m.market_id[1], m.market_id[3]} \subseteq DOMAIN m.lowest_ratio
    /\ {m.market_id[1], m.market_id[3]} \subseteq DOMAIN m.highest_ratio

\* some ratio entry of the first or of the second token is zero
SomeZeroRatio(m) ==
    \E c \in {m.market_id[1], m.market_id[3]} :
        m.lowest_ratio[c] = 0 \/ m.highest_ratio[c] = 0

\* C1: a record in which either currency has a zero entry in lowest_ratio or
\* highest_ratio is skipped: the step adds nothing to the graph and the
\* build does not raise.
C1_ZeroRatioRecordSkipped ==
    [][(BuilderStep /\ HasAllRatios(market') /\ SomeZeroRatio(market'))
         => (markets' = markets /\ pc' = "process" /\ exception' = "none")]_vars

\* market_id missing, without '|', or not two non-empty tokens
MalformedId(m) ==
    /\ GetOr(m, "league", None) = League
    /\ ~TwoTokenId(m)

\* C2: a record whose market_id is missing, has no '|' or does not split
\* into exactly two non-empty tokens is skipped: the step adds no edge and
\* no currency key, and the build does not raise.
C2_MalformedIdSkipped ==
    [][(BuilderStep /\ MalformedId(market'))
         => (markets' = markets /\ pc' = "process" /\ exception' = "none")]_vars

\* the graph was produced (or is being produced) without an exception
GraphProduced == pc \in {"process", "built"}

\* C3: in every graph the builder produces, every stored edge A->B has a
\* stored edge B->A with min_price(B->A) = 1/max_price(A->B) and
\* max_price(B->A) = 1/min_price(A->B).
C3_ReciprocalEdges ==
    GraphProduced =>
        \A a \in DOMAIN markets.val :
            \A b \in DOMAIN markets.val[a].val :
                /\ HasEdge(markets, b, a)
                /\ RMul(Edge(markets, b, a).min_price,
                        Edge(markets, a, b).max_price) = One
                /\ RMul(Edge(markets, b, a).max_price,
                        Edge(markets, a, b).min_price) = One

\* a pair was stored, then stored again from a record naming it in the
\* reverse token order, with other prices
C3_Witness ==
    /\ pc = "process"
    /\ n >= 2
    /\ markets.keys = <<"chaos", "divine">>
    /\ "market_id" \in DOMAIN market
    /\ market.market_id = Id2("divine", "chaos")
    /\ Edge(markets, "chaos", "divine").max_price = <<3, 1>>
    /\ Edge(markets, "chaos", "divine").min_price = <<2, 1>>

\* the record passes every check of the contract
Included(m) == HasAllRatios(m) /\ ~SomeZeroRatio(m)

\* C4: right after an included record 'A|B' is handled, the stored edge
\* A->B has max_price = lowest_ratio[B]/lowest_ratio[A] and
\* min_price = highest_ratio[B]/highest_ratio[A].
C4_ForwardPrices ==
    (pc = "process" /\ n > 0 /\ Included(market)) =>
        LET a == market.market_id[1]
            b == market.market_id[3]
        IN  /\ HasEdge(markets, a, b)
            /\ Edge(markets, a, b).max_price
                 = Norm(market.lowest_ratio[b], market.lowest_ratio[a])
            /\ Edge(markets, a, b).min_price
                 = Norm(market.highest_ratio[b], market.highest_ratio[a])

\* an included record whose lowest and highest ratios differ was stored
C4_Witness ==
    /\ pc = "process"
    /\ n > 0
    /\ Included(market)
    /\ market.lowest_ratio # market.highest_ratio
    /\ Edge(markets, market.market_id[1], market.market_id[3]).max_price
         # Edge(markets, market.market_id[1], market.market_id[3]).min_price

(***************************************************************************)
(* Claims about the queries                                                *)
(***************************************************************************)
\* C5: whenever at least one opportunity passes the filters, the value
\* get_top_spread_opportunities or get_top_triangular_inefficiencies hands
\* to its caller is that non-empty ranked list.
C5_ReturnsRankedList ==
    (last_call.op \in {"spread", "triangular"} /\ opportunities # <<>>) =>
        returned = [kind |-> "list", value |-> opportunities]

\* the unordered pair of an entry of the spread list
PairSet(entry) == {entry.pair[1], entry.pair[2]}

\* where the loop over the graph meets the directed edge pair
PositionInGraph(pair) ==
    CHOOSE k \in 1..Len(DirectedEdges(markets)) : DirectedEdges(markets)[k] = pair

\* C6: the list ranked by spread analysis is non-increasing in spread, every
\* entry has spread = max_price/min_price - 1 of its pair's edge and the
\* spread is strictly greater than the threshold, each unordered pair
\* appears at most once, and entries with equal spread keep the order in
\* which the graph holds them.
C6_SpreadRanking ==
    last_call.op = "spread" =>
        /\ \A i \in 1..Len(opportunities) :
             LET e == opportunities[i] IN
             /\ HasEdge(markets, e.pair[1], e.pair[2])
             /\ e.min_price = Edge(markets, e.pair[1], e.pair[2]).min_price
             /\ e.max_price = Edge(markets, e.pair[1], e.pair[2]).max_price
             /\ RMul(RAdd(e.spread, One), e.min_price) = e.max_price
             /\ RLess(last_call.threshold, e.spread)
        /\ \A i, j \in 1..Len(opportunities) :
             i < j =>
               /\ ~RLess(opportunities[i].spread, opportunities[j].spread)
               /\ PairSet(opportunities[i]) # PairSet(opportunities[j])
               /\ opportunities[i].spread = opportunities[j].spread
                    => PositionInGraph(opportunities[i].pair)
                         < PositionInGraph(opportunities[j].pair)

\* two pairs with the same spread are ranked below a third with a larger
\* one that the graph holds after them
C6_Witness ==
    /\ last_call.op = "spread"
    /\ Len(opportunities) = 3
    /\ opportunities[2].spread = opportunities[3].spread
    /\ RLess(opportunities[2].spread, opportunities[1].spread)
    /\ PositionInGraph(opportunities[3].pair) < PositionInGraph(opportunities[1].pair)

\* the product of the min prices of the legs a->b, b->c, c->a
LegProduct(a, b, c) ==
    RMul(RMul(Edge(markets, a, b).min_price, Edge(markets, b, c).min_price),
         Edge(markets, c, a).min_price)

AllLegs(a, b, c) ==
    HasEdge(markets, a, b) /\ HasEdge(markets, b, c) /\ HasEdge(markets, c, a)

Paths == {opportunities[i].path : i \in 1..Len(opportunities)}

\* C7: triangular detection never records a cycle one of whose legs is absent
\* from the graph; such a triple is skipped without an exception and the
\* other triples are still recorded (with no volume or percentile filter,
\* every triple from the base currency whose legs exist and whose
\* inefficiency is positive is in the list); every recorded inefficiency is
\* strictly greater than 0.
C7_NoAbsentLeg ==
    last_call.op = "triangular" =>
        /\ exception = "none"
        /\ \A i \in 1..Len(opportunities) :
             LET e == opportunities[i] IN
             /\ AllLegs(e.path[1], e.path[2], e.path[3])
             /\ e.path[4] = e.path[1]
             /\ RLess(Zero, e.inefficiency)
             /\ RLess(One, LegProduct(e.path[1], e.path[2], e.path[3]))
        /\ (~last_call.hide_zero_volume /\ last_call.min_percentile = 0) =>
             \A b, c \in DOMAIN markets.val :
                (/\ Cardinality({base_currency, b, c}) = 3
                 /\ AllLegs(base_currency, b, c)
                 /\ RLess(One, LegProduct(base_currency, b, c)))
                    => <<base_currency, b, c, base_currency>> \in Paths

\* a cycle is recorded although the graph holds a currency whose triples
\* lack a leg
C7_Witness ==
    /\ last_call.op = "triangular"
    /\ opportunities # <<>>
    /\ \E b, c \in DOMAIN markets.val :
         /\ Cardinality({base_currency, b, c}) = 3
         /\ ~AllLegs(base_currency, b, c)

\* C8: for every recorded cycle base->B->C->base, inefficiency =
\* min_price(base->B) * min_price(B->C) * min_price(C->base) - 1 (leg prices
\* 2, 3 and 1/5 give inefficiency 1/5), and the recorded cycles are sorted
\* non-increasing by inefficiency.
C8_InefficiencyValue ==
    last_call.op = "triangular" =>
        /\ \A i \in 1..Len(opportunities) :
             LET e == opportunities[i] IN
             /\ e.path[1] = base_currency
             /\ RAdd(e.inefficiency, One)
                  = LegProduct(e.path[1], e.path[2], e.path[3])
             /\ e.steps = <<Edge(markets, e.path[1], e.path[2]).min_price,
                            Edge(markets, e.path[2], e.path[3]).min_price,
                            Edge(markets, e.path[3], e.path[1]).min_price>>
             /\ e.steps = <<Rat(2), Rat(3), <<1, 5>>>> => e.inefficiency = <<1, 5>>
        /\ \A i, j \in 1..Len(opportunities) :
             i < j => ~RLess(opportunities[i].inefficiency,
                             opportunities[j].inefficiency)

\* the cycle with leg prices 2, 3, 1/5 is recorded with inefficiency 1/5,
\* below a cycle of larger inefficiency that the graph yields after it
C8_Witness ==
    /\ last_call.op = "triangular"
    /\ Len(opportunities) = 2
    /\ markets.keys = <<"chaos", "divine", "exalted">>
    /\ opportunities[1].path = <<"chaos", "exalted", "divine", "chaos">>
    /\ opportunities[2].steps = <<Rat(2), Rat(3), <<1, 5>>>>
    /\ opportunities[2].inefficiency = <<1, 5>>
    /\ RLess(opportunities[2].inefficiency, opportunities[1].inefficiency)

(***************************************************************************)
(* Claims about liquidity percentiles                                      *)
(***************************************************************************)
\* 100 * (number of index entries strictly less than v) / (index length),
\* and 0 when v <= 0 or the index is empty
CountPercentile(v, index) ==
    IF v <= 0 \/ index = <<>> THEN Zero
    ELSE Norm(100 * Cardinality({k \in 1..Len(index) : index[k] < v}), Len(index))

\* a leg's percentile: the maximum of its base-volume and divine-volume ones
LegPercentile(a, b) ==
    RMax(CountPercentile(VolumeOf(Edge(markets, a, b), base_currency),
                         market_base_volumes),
         CountPercentile(VolumeOf(Edge(markets, a, b), "divine"),
                         market_divine_volumes))

\* the minimum over the three legs of a recorded path
LowestLeg(path) ==
    RMin(RMin(LegPercentile(path[1], path[2]), LegPercentile(path[2], path[3])),
         LegPercentile(path[3], path[1]))

\* C9: triangular detection keeps a cycle only if the minimum over its three
\* legs of the leg's liquidity percentile strictly exceeds min_percentile; a
\* cycle whose lowest leg percentile equals min_percentile is discarded.
C9_PercentileStrictlyAbove ==
    last_call.op = "triangular" =>
        \A i \in 1..Len(opportunities) :
            RLess(Rat(last_call.min_percentile), LowestLeg(opportunities[i].path))

\* the unordered pairs of the graph
UnorderedPairs ==
    {{a, b} : a \in DOMAIN markets.val, b \in DOMAIN markets.val} \cap
    {pr \in SUBSET (DOMAIN markets.val) :
        \E a \in pr, b \in pr : pr = {a, b} /\ HasEdge(markets, a, b)}

\* the volume an unordered pair traded in a currency
PairVolume(pair, currency) ==
    LET a == CHOOSE x \in pair : TRUE
        b == CHOOSE y \in pair : pair = {a, y}
    IN  VolumeOf(Edge(markets, a, b), currency)

\* index is ascending and holds each positive volume once per unordered pair
IsVolumeIndex(index, currency) ==
    /\ \A i, j \in 1..Len(index) : i < j => index[i] <= index[j]
    /\ \A i \in 1..Len(index) : index[i] > 0
    /\ Len(index) = Cardinality({pr \in UnorderedPairs : PairVolume(pr, currency) > 0})
    /\ \A pr \in UnorderedPairs :
         PairVolume(pr, currency) > 0 =>
            Cardinality({k \in 1..Len(index) : index[k] = PairVolume(pr, currency)})
              = Cardinality({q \in UnorderedPairs :
                               PairVolume(q, currency) = PairVolume(pr, currency)})

\* C10: for every market the analyzer ranks, the percentile of a volume v
\* against the hour's volume index is 0 when v <= 0 or the index is empty and
\* otherwise 100 * (entries strictly less than v) / (index length); each
\* index is sorted ascending and holds exactly the positive volumes, one per
\* unordered pair of the graph.
C10_PercentileByCount ==
    pc = "built" =>
        /\ IsVolumeIndex(market_base_volumes, base_currency)
        /\ IsVolumeIndex(market_divine_volumes, "divine")
        /\ \A a \in DOMAIN markets.val : \A b \in DOMAIN markets.val[a].val :
             /\ Edge(markets, a, b).volume = Edge(markets, b, a).volume
             /\ _get_volume_percentile(VolumeOf(Edge(markets, a, b), base_currency),
                                       market_base_volumes)
                  = CountPercentile(VolumeOf(Edge(markets, a, b), base_currency),
                                    market_base_volumes)
             /\ _get_volume_percentile(VolumeOf(Edge(markets, a, b), "divine"),
                                       market_divine_volumes)
                  = CountPercentile(VolumeOf(Edge(markets, a, b), "divine"),
                                    market_divine_volumes)
        /\ last_call.op = "spread" =>
             \A i \in 1..Len(opportunities) :
                opportunities[i].volume_percentile
                  = LegPercentile(opportunities[i].pair[1], opportunities[i].pair[2])
        /\ last_call.op = "triangular" =>
             \A i \in 1..Len(opportunities) :
                opportunities[i].volume_percentile
                  = LowestLeg(opportunities[i].path)

\* a ranked market lies strictly inside the index, which holds a volume
\* twice and was not in ascending order before the sort, and a pair with a
\* negative volume is in the graph
C10_Witness ==
    /\ pc = "built"
    /\ last_call.op = "spread"
    /\ \E i \in 1..Len(opportunities) :
         /\ RLess(Zero, opportunities[i].volume_percentile)
         /\ RLess(opportunities[i].volume_percentile, Rat(100))
    /\ PairVolumes(markets, base_currency) # market_base_volumes
    /\ \E i, j \in 1..Len(market_base_volumes) :
         i # j /\ market_base_volumes[i] = market_base_volumes[j]
    /\ \E pr \in UnorderedPairs : PairVolume(pr, "divine") < 0

(***************************************************************************)
(* Claims about the TrendAnalyzer                                          *)
(***************************************************************************)
\* the last query was get_persistent_spread_markets
PersistentCalled == trend_pc = "built" /\ trend_call.op = "persistent"

\* the spreads recorded for a pair, oldest first
RecordedSpreads(market_id) == SpreadsOf(market_history.val[market_id].spreads)

\* the number of recorded hours of a pair whose spread is at least min_spread
HoursAtLeast(market_id, min_spread) ==
    Cardinality({i \in 1..Len(RecordedSpreads(market_id)) :
                   ~RLess(RecordedSpreads(market_id)[i], min_spread)})

\* C11: every record get_persistent_spread_markets returns has total_hours
\* >= 2 and persistence_ratio = (recorded hours with spread >= min_spread) /
\* total_hours, which lies in [0, 1] and is at least persistence_threshold;
\* a pair whose spread equals min_spread in every recorded hour has ratio 1,
\* and two hours with spreads 3/100 and 5/100 under min_spread 2/100 give
\* ratio 1 and avg_spread 4/100.
C11_PersistenceRatio ==
    PersistentCalled =>
        \A k \in 1..Len(trend_returned) :
            LET x == trend_returned[k]
                spreads == RecordedSpreads(x.market_id)
            IN  /\ x.total_hours = Len(spreads)
                /\ x.total_hours >= 2
                /\ x.persistence_ratio[1] * x.total_hours =
                       HoursAtLeast(x.market_id, trend_call.min_spread)
                           * x.persistence_ratio[2]
                /\ RLeq(Zero, x.persistence_ratio)
                /\ RLeq(x.persistence_ratio, One)
                /\ RLeq(trend_call.persistence_threshold, x.persistence_ratio)
                /\ (\A i \in 1..Len(spreads) : spreads[i] = trend_call.min_spread)
                       => x.persistence_ratio = One
                /\ (spreads = <<<<3, 100>>, <<1, 20>>>>
                        /\ trend_call.min_spread = <<1, 50>>)
                       => x.persistence_ratio = One /\ x.avg_spread = <<1, 25>>

\* a returned record of the pair with spreads 3/100 and 5/100, queried with
\* min_spread 2/100 and threshold 1/2
C11_Witness ==
    /\ PersistentCalled
    /\ trend_call.min_spread = <<1, 50>>
    /\ trend_call.persistence_threshold = <<1, 2>>
    /\ \E k \in 1..Len(trend_returned) :
          /\ RecordedSpreads(trend_returned[k].market_id) = <<<<3, 100>>, <<1, 20>>>>
          /\ trend_returned[k].persistence_ratio = One
          /\ trend_returned[k].avg_spread = <<1, 25>>

\* the number of recorded hours of a pair in which the base-currency volume
\* or the divine volume was nonzero
HoursWithEitherVolume(market_id) ==
    LET h == market_history.val[market_id] IN
    Cardinality({i \in 1..Len(h.spreads) :
                   h.base_volumes[i] # 0 \/ h.divine_volumes[i] # 0})

\* C12: in every persistent-market record volume_consistency equals (recorded
\* hours in which the base-currency volume or the divine volume was nonzero)
\* / (recorded hours), and the returned list is sorted non-increasing by
\* persistence_ratio * avg_spread * (1 + volume_consistency).
C12_VolumeConsistency ==
    PersistentCalled =>
        /\ \A k \in 1..Len(trend_returned) :
              LET x == trend_returned[k] IN
              x.volume_consistency =
                  Norm(HoursWithEitherVolume(x.market_id),
                       Len(RecordedSpreads(x.market_id)))
        /\ \A k \in 1..(Len(trend_returned) - 1) :
              RLeq(PersistentKey(trend_returned[k + 1]), PersistentKey(trend_returned[k]))

\* the last query was get_trending_markets
TrendingCalled == trend_pc = "built" /\ trend_call.op = "trending"

\* the window of a pair: the records the query takes from its history
WindowOf(market_id, lookback_hours) ==
    SpreadsOf(LastSlice(market_history.val[market_id].spreads, lookback_hours))

\* the least-squares slope of ys against 0..n-1, as the fraction
\* (n * sum(i * y_i) - sum(i) * sum(y_i)) / (n * sum(i^2) - sum(i)^2)
LeastSquaresSlope(ys) ==
    LET k == Len(ys)
        sx == SumInts([i \in 1..k |-> i - 1], 1)
        sxx == SumInts([i \in 1..k |-> (i - 1) * (i - 1)], 1)
        sy == SumRats(ys, 1)
        sxy == SumRats([i \in 1..k |-> RMul(Rat(i - 1), ys[i])], 1)
    IN  RDiv(RSub(RMul(Rat(k), sxy), RMul(Rat(sx), sy)), Rat(k * sxx - sx * sx))

\* the spreads are all equal
ConstantSeries(ys) == \A i \in 1..Len(ys) : ys[i] = ys[1]

\* the spreads form a strictly increasing arithmetic sequence
IncreasingArithmetic(ys) ==
    /\ Len(ys) >= 2
    /\ RLess(ys[1], ys[2])
    /\ \A i \in 1..(Len(ys) - 1) : RSub(ys[i + 1], ys[i]) = RSub(ys[2], ys[1])

\* the pair has the points the query asks for and passes its volume filter
ConsideredForTrend(market_id) ==
    LET h == market_history.val[market_id]
        k == trend_call.lookback_hours
    IN  /\ Len(h.spreads) >= k
        /\ Len(WindowOf(market_id, k)) >= 2
        /\ RLeq(Rat(trend_call.min_avg_volume),
                MaxAvgVolumeInBase(LastSlice(h.base_volumes, k),
                                   LastSlice(h.divine_volumes, k),
                                   trend_divine_to_base_ratio))

\* the pairs a list of records names
MarketIds(list) == {list[k].market_id : k \in 1..Len(list)}

C14_WindowIsLookback ==
    (TrendingCalled /\ trend_call.lookback_hours >= 0) =>
        \A k \in 1..Len(trend_returned) :
            LET x == trend_returned[k] IN
            /\ Len(market_history.val[x.market_id].spreads) >= trend_call.lookback_hours
            /\ x.hours_analyzed = trend_call.lookback_hours

\* C15: a TrendAnalyzer built from exactly one hourly payload returns an empty
\* list from get_persistent_spread_markets and from get_trending_markets,
\* whatever the arguments.
C15_OneHourEmpty ==
    (/\ trend_pc = "built"
     /\ Len(hourly_data_list) = 1
     /\ trend_call.op \in {"persistent", "trending"})
        => trend_returned = <<>>

\* built from one payload that has two pairs, and asked for the trend over
\* lookback_hours = 0
C15_Witness ==
    /\ TrendingCalled
    /\ Len(hourly_data_list) = 1
    /\ Len(market_history.keys) = 2
    /\ trend_call.lookback_hours = 0
    /\ trend_returned = <<>>

\* the currencies of the payloads
TrendCurrencies == {"chaos", "divine", "exalted"}

\* the hour indexes recorded for a pair, oldest first
RecordedHours(market_id) ==
    IF Has(market_history, market_id)
    THEN [i \in 1..Len(market_history.val[market_id].spreads) |->
            market_history.val[market_id].spreads[i].hour_index]
    ELSE <<>>

\* the history table is the fold of the hours' graphs
HistoryFolded ==
    trend_pc = "built" =>
        /\ \A a \in TrendCurrencies, b \in TrendCurrencies :
              LET hours == RecordedHours(CanonicalId(a, b)) IN
              /\ \A h \in 1..Len(analyzers) :
                    Cardinality({i \in 1..Len(hours) : hours[i] = h - 1}) =
                        IF HasEdge(analyzers[h], a, b) THEN 1 ELSE 0
              /\ \A i \in 1..Len(hours) : hours[i] \in 0..(Len(analyzers) - 1)
              /\ \A i \in 1..(Len(hours) - 1) : hours[i] < hours[i + 1]
        /\ \A id \in DOMAIN market_history.val :
              /\ \E a \in TrendCurrencies, b \in TrendCurrencies : id = CanonicalId(a, b)
              /\ Len(market_history.val[id].spreads) >= 1
              /\ Len(market_history.val[id].base_volumes) =
                     Len(market_history.val[id].spreads)
              /\ Len(market_history.val[id].divine_volumes) =
                     Len(market_history.val[id].spreads)

\* a step of a built TrendAnalyzer leaves the history table as it is
HistoryKept == trend_pc = "built" => market_history' = market_history

C17_CanonicalKeys ==
    trend_pc = "built" =>
        /\ \A id \in DOMAIN market_history.val :
              /\ Len(id) = 3
              /\ id[2] = Sep
              /\ id[1] \in TrendCurrencies /\ id[3] \in TrendCurrencies
              /\ StrRank(id[1]) <= StrRank(id[3])
        /\ \A a \in TrendCurrencies, b \in TrendCurrencies :
              (StrRank(a) < StrRank(b)) =>
                  /\ ~Has(market_history, <<b, Sep, a>>)
                  /\ \A h \in 1..Len(analyzers) :
                        (HasEdge(analyzers[h], a, b) \/ HasEdge(analyzers[h], b, a))
                            => \E i \in 1..Len(RecordedHours(<<a, Sep, b>>)) :
                                  RecordedHours(<<a, Sep, b>>)[i] = h - 1

\* pair chaos|divine given as chaos|divine in the first hour and as
\* divine|chaos in the second, whose graph is iterated from divine
C17_Witness ==
    /\ trend_pc = "built"
    /\ Len(analyzers) = 2
    /\ analyzers[1].keys[1] = "chaos"
    /\ analyzers[2].keys = <<"divine", "chaos">>
    /\ RecordedHours(<<"chaos", Sep, "divine">>) = <<0, 1>>
    /\ DOMAIN market_history.val = {<<"chaos", Sep, "divine">>}

\* the last query was compare_with_current
CompareCalled == trend_pc = "built" /\ trend_call.op = "compare"

\* the spread of the pair of a and b in the current hour's graph
CurrentSpread(a, b) == TrendSpreadWidth(Edge(trend_call.current, a, b))

\* the pairs that have an edge in the current hour's graph and an entry in
\* the history table, by their keys
PairsInBoth ==
    {CanonicalId(a, b) : <<a, b>> \in
        {e \in TrendCurrencies \X TrendCurrencies :
            HasEdge(trend_call.current, e[1], e[2])
                /\ Has(market_history, CanonicalId(e[1], e[2]))}}

\* those of them whose current spread is above 0.001
PairsInBothAboveFloor ==
    {CanonicalId(a, b) : <<a, b>> \in
        {e \in TrendCurrencies \X TrendCurrencies :
            /\ HasEdge(trend_call.current, e[1], e[2])
            /\ Has(market_history, CanonicalId(e[1], e[2]))
            /\ RLess(<<1, 1000>>, CurrentSpread(e[1], e[2]))}}

\* each record's percentile is 100 * (historical spreads strictly below the
\* current spread) / (historical spreads), and the list is sorted
\* non-increasing by current_spread - historical average
PercentilesAndOrder ==
    /\ \A k \in 1..Len(trend_returned) :
          LET x == trend_returned[k]
              spreads == RecordedSpreads(x.market_id)
              below == Cardinality({i \in 1..Len(spreads) :
                                      RLess(spreads[i], x.current_spread)})
          IN  /\ x.current_spread = CurrentSpread(x.market_id[1], x.market_id[3])
              /\ x.percentile[1] * Len(spreads) = 100 * below * x.percentile[2]
              /\ x.vs_avg = RSub(x.current_spread, MeanRats(spreads))
    /\ \A k \in 1..(Len(trend_returned) - 1) :
          RLeq(trend_returned[k + 1].vs_avg, trend_returned[k].vs_avg)

Collected == trend_pc # "fetch" /\ trend_pc # "off"

\* the states of a run that builds the aggregator and calls its functions
TrendFunctionsRun ==
    trend_pc \in {"construct", "built", "persistent_done", "trending_done", "done"}

\* every historical hour is asked for, whatever the earlier fetches returned
EveryHourFetched == Collected => Len(timestamps) = TREND_HOURS

\* with fewer than 2 payloads nothing is built, called or raised
InsufficientIsQuiet ==
    (Collected /\ Len(hourly_data_list) < 2) =>
        /\ trend_pc = "insufficient"
        /\ analyzers = <<>>
        /\ market_history = EmptyDict
        /\ trend_call = NoCall
        /\ trend_exception = "none"

\* with 2 payloads or more the aggregator is built and its functions run
TwoPayloadsRun ==
    (Collected /\ Len(hourly_data_list) >= 2) => TrendFunctionsRun

\* a failed fetch adds the timestamp and no payload; a fetch that returns
\* data adds both
FetchStep ==
    (trend_pc = "fetch" /\ trend_pc' = "fetch") =>
        /\ Len(timestamps') = Len(timestamps) + 1
        /\ \/ hourly_data_list' = hourly_data_list
           \/ \E data \in HourPayloads :
                hourly_data_list' = Append(hourly_data_list, data)

\* C19: in main's trend run a failed fetch of a historical hour is skipped
\* and the remaining hours are still fetched; the aggregator is built and its
\* persistence and trending functions run if and only if at least 2 payloads
\* (the current hour included) were collected; with fewer than 2 no trend
\* function runs and no exception is raised
C19_TrendRunIffTwoPayloads ==
    /\ [](EveryHourFetched /\ InsufficientIsQuiet /\ TwoPayloadsRun)
    /\ [][FetchStep]_vars

\* the payloads of the run whose graph is built without an exception
UnaffectedHours ==
    LET Builds(data) == ~Raises(MarketAnalyzer(data).outcome)
    IN  SelectSeq(hourly_data_list, Builds)

\* the graphs of the unaffected hours
UnaffectedGraphs ==
    [i \in 1..Len(UnaffectedHours) |-> MarketAnalyzer(UnaffectedHours[i]).graph]

\* the run is over
TrendRunEnded == trend_pc \in {"insufficient", "raised", "done"}

\* C20: an unexpected internal error raised while one hour's payload is
\* turned into a graph does not keep the other hours from being analysed:
\* the run still folds the unaffected hours and produces persistence and
\* trending results from them
C20_OtherHoursStillAnalysed ==
    (/\ TrendRunEnded
     /\ Len(hourly_data_list) >= 2
     /\ Len(UnaffectedHours) < Len(hourly_data_list)
     /\ Len(UnaffectedHours) >= 1) =>
        /\ trend_pc = "done"
        /\ market_history = _analyze_trends(UnaffectedGraphs, base_currency)

(***************************************************************************)
(* Claims about the division guards                                        *)
(***************************************************************************)
\* the points recorded for all pairs of the history table
HistoryPoints ==
    UNION { {market_history.val[id].spreads[i] :
                i \in 1..Len(market_history.val[id].spreads)} :
            id \in DOMAIN market_history.val }

\* C21: every core computation that divides by a pair's min_price performs
\* the division only after checking min_price > 0, and a pair with
\* min_price <= 0 is skipped rather than divided; for the history fold of
\* _analyze_trends: no recorded point has a spread computed from a
\* min_price <= 0
C21_MinPriceCheckedBeforeDividing ==
    \A point \in HistoryPoints : RLess(Zero, point.min_price)

(***************************************************************************)
(* Claims about the queries' frame                                         *)
(***************************************************************************)
\* a step taken by a query of a built MarketAnalyzer
AnalyzerQueryStep == pc = "built"

\* a step taken by a query of a built TrendAnalyzer
TrendQueryStep == trend_pc = "built"

\* the history table and the ratio as the constructor left them
TableAsBuilt ==
    _analyze_trends(AnalyzersFrom(hourly_data_list, 1, <<>>).analyzers, base_currency)

RatioAsBuilt ==
    TrendAnalyzer_calculate_divine_base_ratio(
        AnalyzersFrom(hourly_data_list, 1, <<>>).analyzers, base_currency)

\* what the last query returned is what that query returns, with its
\* arguments, on the analyzer as it was built
SameArgumentsSameResult ==
    /\ last_call.op = "spread" =>
          opportunities = SpreadOpportunities(last_call.hide_zero_volume,
                                              last_call.threshold)
    /\ last_call.op = "triangular" =>
          opportunities = TriangularOpportunities(last_call.hide_zero_volume,
                                                  last_call.min_percentile)
    /\ trend_call.op = "persistent" =>
          trend_returned = PersistentMarkets(TableAsBuilt, RatioAsBuilt,
                               trend_call.min_spread, trend_call.persistence_threshold,
                               trend_call.min_avg_volume, trend_call.top_n)
    /\ trend_call.op = "trending" =>
          trend_returned = TrendingMarkets(TableAsBuilt, RatioAsBuilt,
                               trend_call.lookback_hours, trend_call.min_avg_volume,
                               trend_call.top_n)
    /\ trend_call.op = "compare" =>
          trend_returned = OpportunitiesWithContext(TableAsBuilt, trend_call.current)

AnalyzerKept ==
    AnalyzerQueryStep =>
        UNCHANGED <<markets, market_base_volumes, market_divine_volumes,
                    base_stats, divine_stats, divine_to_base_ratio>>

TrendAnalyzerKept ==
    TrendQueryStep =>
        UNCHANGED <<analyzers, market_history, trend_divine_to_base_ratio>>

TimestampsIncrease ==
    /\ \A i, j \in 1..Len(timestamps) : i < j => timestamps[i] < timestamps[j]
    /\ \A i \in 1..Len(timestamps) : timestamps[i] < 0

\* the current hour's payload is the last of the collected list
CurrentHourLast ==
    Collected => hourly_data_list[Len(hourly_data_list)] = current_markets

\* a fetch puts its payload, if any, behind the payloads of earlier hours,
\* in the step that puts its timestamp behind the earlier timestamps
PayloadAppended ==
    (trend_pc = "fetch" /\ trend_pc' = "fetch") =>
        /\ Len(timestamps') = Len(timestamps) + 1
        /\ SubSeq(timestamps', 1, Len(timestamps)) = timestamps
        /\ \/ hourly_data_list' = hourly_data_list
           \/ \E data \in HourPayloads :
                hourly_data_list' = Append(hourly_data_list, data)

\* a point of the table carries the prices of the pair in the graph of the
\* payload at the position of its hour_index
PointFromHour(market_id, point) ==
    /\ point.hour_index + 1 \in 1..Len(hourly_data_list)
    /\ LET g == MarketAnalyzer(hourly_data_list[point.hour_index + 1]).graph
           a == market_id[1]
           b == market_id[3]
       IN  /\ HasEdge(g, a, b)
           /\ \/ /\ point.min_price = Edge(g, a, b).min_price
                 /\ point.max_price = Edge(g, a, b).max_price
              \/ /\ point.min_price = Edge(g, b, a).min_price
                 /\ point.max_price = Edge(g, b, a).max_price

\* the fold numbers the hours by their position in the collected list
FoldFollowsList ==
    trend_pc \in {"built", "persistent_done", "trending_done", "done"} =>
        /\ Len(analyzers) = Len(hourly_data_list)
        /\ \A id \in DOMAIN market_history.val :
              LET spread_data == market_history.val[id].spreads IN
              /\ \A i \in 1..Len(spread_data) : PointFromHour(id, spread_data[i])
              /\ \A i, j \in 1..Len(spread_data) :
                    i < j => spread_data[i].hour_index < spread_data[j].hour_index

\* C23: the payload list that main passes to the trend aggregator is ordered
\* by strictly increasing hour timestamp, oldest first, with the current
\* hour's payload last, whichever historical fetches failed, and the fold
\* assigns hour_index in that same order
C23_OldestFirst ==
    /\ [](TimestampsIncrease /\ CurrentHourLast /\ FoldFollowsList)
    /\ [][PayloadAppended]_vars

\* one historical fetch failed, the aggregator is built from the other hour
\* and the current hour, and a pair is recorded for hours 0 and 1
C23_Witness ==
    /\ trend_pc = "built"
    /\ Len(timestamps) = TREND_HOURS
    /\ Len(hourly_data_list) = TREND_HOURS
    /\ RecordedHours(<<"chaos", Sep, "divine">>) = <<0, 1>>

(***************************************************************************)
(* Claims about records of the same pair                                   *)
(***************************************************************************)
\* the directed edges of g outside the unordered pair {a, b}
EdgesOutside(g, a, b) ==
    { <<x, y, Edge(g, x, y)>> :
        <<x, y>> \in { e \in (DOMAIN g.val) \X (DOMAIN g.val) :
                         HasEdge(g, e[1], e[2]) /\ {e[1], e[2]} # {a, b} } }

\* both directions of the pair of record m carry the prices and the volume
\* of m, and are reciprocal
PairReflects(g, m) ==
    LET a == m.market_id[1]
        b == m.market_id[3]
    IN  /\ HasEdge(g, a, b) /\ HasEdge(g, b, a)
        /\ a # b =>
             /\ Edge(g, a, b).max_price = Norm(m.lowest_ratio[b], m.lowest_ratio[a])
             /\ Edge(g, a, b).min_price = Norm(m.highest_ratio[b], m.highest_ratio[a])
        /\ RMul(Edge(g, b, a).min_price, Edge(g, a, b).max_price) = One
        /\ RMul(Edge(g, b, a).max_price, Edge(g, a, b).min_price) = One
        /\ Edge(g, a, b).volume = GetOr(m, "volume_traded", EmptyMap)
        /\ Edge(g, b, a).volume = GetOr(m, "volume_traded", EmptyMap)

\* a step that handles an included record rewrites the two edges of its pair
\* and no other edge; a step that skips its record leaves the graph as it is
LastRecordWins ==
    (BuilderStep /\ pc' = "process") =>
        IF Included(market')
        THEN /\ PairReflects(markets', market')
             /\ EdgesOutside(markets', market'.market_id[1], market'.market_id[3])
                  = EdgesOutside(markets, market'.market_id[1], market'.market_id[3])
        ELSE markets' = markets

\* C24: when several included records of the same unordered pair occur in
\* one hour's payload, in either token order, both directed edges of the
\* pair reflect the last such record after building and stay reciprocal; a
\* later record of that pair that is skipped leaves the earlier edges
\* unchanged
C24_LastWriteWins == [][LastRecordWins]_vars

\* chaos|divine was stored, stored again from a record 'divine|chaos' with
\* other prices, and a later record of the pair with a zero ratio was
\* skipped: the edges are those of the second record
C24_Witness ==
    /\ pc = "process"
    /\ n >= 3
    /\ markets.keys = <<"chaos", "divine">>
    /\ ~HasEdge(markets, "chaos", "chaos")
    /\ HasAllRatios(market) /\ SomeZeroRatio(market)
    /\ Edge(markets, "chaos", "divine").max_price = <<3, 1>>
    /\ Edge(markets, "chaos", "divine").min_price = <<2, 1>>
    /\ Edge(markets, "divine", "chaos").max_price = <<1, 2>>

(***************************************************************************)
(* Claims about the orientation of recorded triangles                      *)
(***************************************************************************)
\* the three rotations of a recorded path, each as its ordered triple
Rotations(path) ==
    { <<path[1], path[2], path[3]>>, <<path[2], path[3], path[1]>>,
      <<path[3], path[1], path[2]>> }

\* the base currency has an edge to another currency
BaseHasEdge ==
    \E b \in DOMAIN markets.val : b # base_currency /\ HasEdge(markets, base_currency, b)

\* C25: every path recorded by triangular detection has the form
\* base -> B -> C -> base with base, B and C pairwise distinct, no ordered
\* triple is recorded twice, so no two recorded entries are rotations of the
\* same directed 3-cycle, and when the base currency has no edge in the graph
\* the result is empty
C25_NoRotations ==
    last_call.op = "triangular" =>
        /\ \A i \in 1..Len(opportunities) :
             LET path == opportunities[i].path IN
             /\ Len(path) = 4
             /\ path[1] = base_currency /\ path[4] = base_currency
             /\ Cardinality({path[1], path[2], path[3]}) = 3
        /\ \A i, j \in 1..Len(opportunities) :
             i # j => Rotations(opportunities[i].path)
                          \cap Rotations(opportunities[j].path) = {}
        /\ ~BaseHasEdge => opportunities = <<>>

\* a triangle is recorded from a graph in which the base currency also has
\* an edge to itself
C25_Witness ==
    /\ last_call.op = "triangular"
    /\ HasEdge(markets, base_currency, base_currency)
    /\ Len(opportunities) >= 1

(***************************************************************************)
(* Claims about the spread of the two directions of a pair                 *)
(***************************************************************************)
\* a graph of one pair was built with rounding
FloatGraphBuilt == pc = "built" /\ HasEdge(markets, "chaos", "divine")

\* the spread as the loops compute it from the edge they meet first, and
\* from the other edge
SpreadForward == FloatSpreadWidth(Edge(markets, "chaos", "divine"))
SpreadBackward == FloatSpreadWidth(Edge(markets, "divine", "chaos"))

RAbs(q) == IF q[1] < 0 THEN <<0 - q[1], q[2]>> ELSE q

\* 8 * 2^-MantissaBits * max(1, max_price / min_price)
RoundingBound ==
    RMul(<<8, Pow2(MantissaBits)>>,
         RMax(One, RDiv(Edge(markets, "chaos", "divine").max_price,
                        Edge(markets, "chaos", "divine").min_price)))

\* C26: for every pair of reciprocal edges with positive prices, the spread
\* max_price/min_price - 1 computed from edge A->B equals the spread computed
\* from edge B->A, so the spread of an unordered pair does not depend on the
\* direction the first-seen de-duplication visits
C26_SpreadSameBothWays ==
    FloatGraphBuilt => SpreadForward = SpreadBackward

\* C26 as it holds: the two spreads agree up to the rounding of the
\* divisions, within 8 * 2^-MantissaBits * max(1, max_price/min_price) of
\* each other
C26_SpreadsAgreeToRounding ==
    FloatGraphBuilt => RLeq(RAbs(RSub(SpreadForward, SpreadBackward)), RoundingBound)

\* a record whose two directions give different spreads
C26_Witness ==
    /\ FloatGraphBuilt
    /\ SpreadForward # SpreadBackward
    /\ RLess(Zero, Edge(markets, "chaos", "divine").min_price)
    /\ RLess(Zero, Edge(markets, "divine", "chaos").min_price)

\* every edge of the graph has 0 < min_price <= max_price
EdgesOrdered ==
    \A a \in DOMAIN markets.val :
        \A b \in DOMAIN markets.val[a].val :
            /\ RLess(Zero, Edge(markets, a, b).min_price)
            /\ RLeq(Edge(markets, a, b).min_price, Edge(markets, a, b).max_price)

\* C27: if every edge of the graph satisfies 0 < min_price <= max_price,
\* triangular detection never records both orientations of one triangle:
\* for distinct B and C at most one of base->B->C->base and
\* base->C->B->base has an inefficiency above 0
C27_OneOrientation ==
    (pc = "built" /\ EdgesOrdered) =>
        \A b, c \in DOMAIN markets.val :
            (Cardinality({base_currency, b, c}) = 3) =>
                /\ (AllLegs(base_currency, b, c) /\ AllLegs(base_currency, c, b)) =>
                      ~(/\ RLess(One, LegProduct(base_currency, b, c))
                        /\ RLess(One, LegProduct(base_currency, c, b)))
                /\ last_call.op = "triangular" =>
                      ~(/\ <<base_currency, b, c, base_currency>> \in Paths
                        /\ <<base_currency, c, b, base_currency>> \in Paths)

\* a graph with ordered edges, one of them with min_price below max_price,
\* in which one orientation of the triangle is recorded
C27_Witness ==
    /\ pc = "built"
    /\ EdgesOrdered
    /\ last_call.op = "triangular"
    /\ Len(opportunities) = 1
    /\ \E a \in DOMAIN markets.val :
          \E b \in DOMAIN markets.val[a].val :
              RLess(Edge(markets, a, b).min_price, Edge(markets, a, b).max_price)

(***************************************************************************)
(* Claims about the records of the history table                           *)
(***************************************************************************)
\* C28: the min_price and max_price stored in a history record under the
\* canonical id 'X|Y' (and reported as latest_min_price and
\* latest_max_price) are the prices of the edge X->Y in that hour's graph,
\* in every hour, whatever the order of the hour's records in the payload
C28_PricesOfCanonicalEdge ==
    trend_pc = "built" =>
        \A id \in DOMAIN market_history.val :
            \A i \in 1..Len(market_history.val[id].spreads) :
                LET point == market_history.val[id].spreads[i]
                    g == analyzers[point.hour_index + 1]
                IN  /\ HasEdge(g, id[1], id[3])
                    /\ point.min_price = Edge(g, id[1], id[3]).min_price
                    /\ point.max_price = Edge(g, id[1], id[3]).max_price

(***************************************************************************)
(* Claims about the entries of the history table                           *)
(***************************************************************************)
\* some folded hour has an edge between a and b
SomeHourHasEdge(a, b) ==
    \E h \in 1..Len(analyzers) :
        HasEdge(analyzers[h], a, b) \/ HasEdge(analyzers[h], b, a)

\* the table has an entry exactly for the pairs some folded hour had an edge
\* for, and no entry is empty
EntriesAreFoldedPairs ==
    /\ \A a \in TrendCurrencies, b \in TrendCurrencies :
          Has(market_history, CanonicalId(a, b)) <=> SomeHourHasEdge(a, b)
    /\ \A id \in DOMAIN market_history.val :
          /\ \E a \in TrendCurrencies, b \in TrendCurrencies : id = CanonicalId(a, b)
          /\ Len(market_history.val[id].spreads) >= 1

\* get_market_summary of a pair is None exactly when the pair has no entry,
\* and the comparison with a current hour leaves out the pairs without entry
NoHistoryNoResult ==
    /\ \A a \in TrendCurrencies, b \in TrendCurrencies :
          (get_market_summary(market_history, CanonicalId(a, b)).kind = None)
              <=> ~SomeHourHasEdge(a, b)
    /\ trend_call.op = "compare" =>
          \A i \in 1..Len(trend_returned) :
              Has(market_history, trend_returned[i].market_id)

\* a query of a built TrendAnalyzer adds no entry to the table
NoEntryAdded ==
    TrendQueryStep => DOMAIN market_history'.val = DOMAIN market_history.val

SameHour(i, j) ==
    /\ fetch_log[i].timestamp = fetch_log[j].timestamp
    /\ fetch_log[i].realm = fetch_log[j].realm

\* a call that found a JSON file returned its document and sent no request
CachedWithoutRequest ==
    \A i \in 1..Len(fetch_log) :
        fetch_log[i].found.kind = "json" =>
            /\ fetch_log[i].sent = 0
            /\ fetch_log[i].raised = "none"
            /\ fetch_log[i].returned = fetch_log[i].found.document

\* a call that found anything else sent exactly one request
OtherwiseOneRequest ==
    \A i \in 1..Len(fetch_log) :
        fetch_log[i].found.kind # "json" => fetch_log[i].sent = 1

\* a call that found no file, or a file that is not JSON, sent exactly one
\* request; a call that found a file it may not open sent none and raised
UnusableOneRequest ==
    \A i \in 1..Len(fetch_log) :
        /\ fetch_log[i].found.kind \in {"absent", "garbage"} =>
              fetch_log[i].sent = 1 /\ fetch_log[i].raised = "none"
        /\ fetch_log[i].found.kind = "locked" =>
              fetch_log[i].sent = 0 /\ fetch_log[i].raised = "PermissionError"

\* a call returns None exactly when it sent a request that returned no data,
\* and then it left the file as it found it
NoneWithoutWriting ==
    \A i \in 1..Len(fetch_log) :
        (fetch_log[i].raised = "none" /\ fetch_log[i].returned = NoData) =>
            /\ fetch_log[i].sent = 1
            /\ fetch_log[i].left = fetch_log[i].found

\* a step changes no file but the one of the call it makes, and that one only
\* when the call's request returned data
WritesOnlyData ==
    \A f \in DOMAIN cache_files :
        cache_files'[f] # cache_files[f] =>
            /\ Len(fetch_log') = Len(fetch_log) + 1
            /\ LET call == fetch_log'[Len(fetch_log')] IN
               /\ f = CacheFilename(call.timestamp, call.realm)
               /\ call.sent = 1
               /\ Truthy(call.returned)

\* after a call that returned data, no later call for the same hour sent a
\* request
NoRequestAfterSuccess ==
    \A i \in 1..Len(fetch_log), j \in 1..Len(fetch_log) :
        (i < j /\ SameHour(i, j) /\ Truthy(fetch_log[i].returned)) =>
            fetch_log[j].sent = 0

\* after a call that left a JSON file, no later call for the same hour sent a
\* request, and each returned the document of that file
NoRequestAfterCached ==
    \A i \in 1..Len(fetch_log), j \in 1..Len(fetch_log) :
        (i < j /\ SameHour(i, j) /\ fetch_log[i].left.kind = "json") =>
            /\ fetch_log[j].sent = 0
            /\ fetch_log[j].returned = fetch_log[i].left.document

\* the requests sent are those the calls count
RequestsCounted ==
    /\ Len(api_requests) <= Len(fetch_log)
    /\ \A i \in 1..Len(fetch_log) : fetch_log[i].sent \in {0, 1}

\* C30 as stated: fetch_hourly_data for a given (realm, timestamp) returns the
\* cached payload without any API request when a readable cache file exists;
\* otherwise it makes exactly one API request, writes the cache only when that
\* request returned data, and returns None without writing anything when it did
\* not, so that after one successful fetch every later call for the same
\* (realm, timestamp) makes no API request.
C30_OneFetchPerHour ==
    /\ [](CachedWithoutRequest /\ OtherwiseOneRequest /\ NoneWithoutWriting
            /\ NoRequestAfterSuccess /\ RequestsCounted)
    /\ [][WritesOnlyData]_vars

\* C30 as amended: fetch_hourly_data returns the cached payload without any API
\* request when a cache file exists and holds JSON; when no file exists or the
\* file is not JSON it makes exactly one API request, writes the cache only
\* when that request returned data, and returns None without writing anything
\* when it did not; a file that exists and cannot be opened raises out of the
\* call with no request; after a call that left a written cache file every
\* later call for the same (realm, timestamp) makes no API request and returns
\* that file's payload.
C30_OneFetchPerCachedHour ==
    /\ [](CachedWithoutRequest /\ UnusableOneRequest /\ NoneWithoutWriting
            /\ NoRequestAfterCached /\ RequestsCounted)
    /\ [][WritesOnlyData]_vars

\* two calls for one hour: the first found no file, sent a request, got the
\* fresh document and wrote it; the second sent nothing and returned it
C30_Witness ==
    /\ Len(fetch_log) = 2
    /\ SameHour(1, 2)
    /\ fetch_log[1].found.kind = "absent"
    /\ fetch_log[1].sent = 1
    /\ fetch_log[1].returned = Document("fresh")
    /\ fetch_log[1].left = JsonFile(Document("fresh"))
    /\ fetch_log[2].sent = 0
    /\ fetch_log[2].returned = Document("fresh")
    /\ Len(api_requests) = 1

====
